---- MODULE Spec2Model ----
(***************************************************************************)
(* Order management screen (OrdersManagement): the loader that reconciles  *)
(* orders against contracts, the display reconciler getDisplayItems, and   *)
(* the workflow helper ensureDeliveryTasks.                                *)
(*                                                                         *)
(* Strings are sequences of character tokens, so that normalisation        *)
(* (diacritics, case, surrounding blanks) is computed and not assumed.     *)
(* The token "a'" is the letter a with an acute accent, "A'" its capital.  *)
(* Absent numeric fields (undefined / null) are Null.                      *)
(***************************************************************************)
EXTENDS Integers, Sequences, FiniteSets, TLC

VARIABLES
    dbOrders,        \* collection 'orders': sequence of order documents
    dbContracts,     \* collection 'contracts': sequence of contract documents
    nextDoc,         \* number of documents addDoc has created so far
    orders,          \* component state: the in-memory order list
    loading,         \* component state: loading flag
    contractsMap,    \* component state: contracts keyed by id
    contractsByEmail,\* component state: contracts keyed by normalised email
    viewing,         \* component state: the order whose workflow is open
    workflow,        \* component state: the staged workflow
    wfEditMode,      \* component state: edit mode of the workflow panel
    templates,       \* component state: the workflow templates fetched so far
    uidCtr,          \* number of identifiers uid() has handed out
    runs,            \* history: completed loader runs
    lastRun,         \* history: what the last loader run saw and did
    madeBy,          \* history: per contract, orders created in the first / in later runs
    startOrders,     \* history: the orders the database held at the start
    lastOp, prevOp,  \* history: the last two workflow handlers run without a break
    edits,           \* history: changes made to the staged workflow in the editor
    writes,          \* history: runs of the handlers that write a workflow
    failures,        \* history: database calls that failed in those handlers
    edW, edN, edOut, edOut2, edPc,   \* ensureDeliveryTasks: inputs, results, position
    gdOrder, gdOut, gdPc,            \* getDisplayItems: input order, result, position
    isAdmin,         \* header state: admin mode as the header shows it
    showAdminModal,  \* header state: the sign-in modal is open
    adminEmail, adminPassword,       \* header state: the fields of the modal
    adminModalError, \* header state: the message shown in the modal
    siteAdminMode,   \* localStorage: the item 'site_admin_mode' is set
    adminEvents,     \* the details of the 'siteAdminModeChanged' events dispatched
    path,            \* the route the router shows
    lastSubmit,      \* history: the last run of submitAdminModal
    submits,         \* history: runs of submitAdminModal
    sessions,        \* per browser session: the staged workflow and the saving flag
    inflight,        \* the handler invocations in flight, with their local values
    trace,           \* history: the database calls issued and answered, in order
    loads            \* runs of the loader under way: position and locals of each

vars == <<dbOrders, dbContracts, nextDoc, orders, loading, contractsMap,
          contractsByEmail, viewing, workflow, wfEditMode, templates, uidCtr, runs,
          lastRun, madeBy, startOrders, lastOp, prevOp, edits, writes, failures,
          edW, edN, edOut, edOut2, edPc, gdOrder, gdOut, gdPc,
          isAdmin, showAdminModal, adminEmail, adminPassword, adminModalError,
          siteAdminMode, adminEvents, path, lastSubmit, submits,
          sessions, inflight, trace, loads>>

loaderVars == <<dbOrders, dbContracts, nextDoc, orders, loading, contractsMap,
                contractsByEmail, viewing, workflow, wfEditMode, templates, uidCtr, runs,
                lastRun, madeBy, startOrders>>
editorVars == <<lastOp, prevOp, edits, writes, failures>>
ensureVars == <<edW, edN, edOut, edOut2, edPc>>
displayVars == <<gdOrder, gdOut, gdPc>>
adminVars == <<isAdmin, showAdminModal, adminEmail, adminPassword, adminModalError,
               siteAdminMode, adminEvents, path, lastSubmit, submits>>
stepVars == <<sessions, inflight, trace, loads>>

----------------------------------------------------------------------------
(* Bounds *)

MaxCats == 2         \* categories in an input workflow
MaxNames == 2        \* product names handed to ensureDeliveryTasks
MaxItems == 2        \* line items of an input order
MaxStore == 2        \* purchased items (storeItems) of an input contract
MaxStart == 2        \* order documents in the database at the start
MaxRuns == 2         \* loader runs in one behaviour
MaxUid == 3          \* identifiers uid() hands out in one behaviour

Null == -1

----------------------------------------------------------------------------
(* Strings *)

SeqMap(Op(_), s) == [i \in 1..Len(s) |-> Op(s[i])]

\* NFD decomposition followed by removal of the combining marks
StripDiacritic(c) ==
    CASE c = "a'" -> "a"
      [] c = "A'" -> "A"
      [] c = "i'" -> "i"
      [] OTHER -> c

ToLowerChar(c) ==
    CASE c = "A" -> "a"
      [] c = "A'" -> "a'"
      [] c = "E" -> "e"
      [] c = "F" -> "f"
      [] c = "P" -> "p"
      [] c = "X" -> "x"
      [] OTHER -> c

RECURSIVE TrimStart(_)
TrimStart(s) == IF s # <<>> /\ Head(s) = " " THEN TrimStart(Tail(s)) ELSE s

RECURSIVE TrimEnd(_)
TrimEnd(s) ==
    IF s # <<>> /\ s[Len(s)] = " " THEN TrimEnd(SubSeq(s, 1, Len(s) - 1)) ELSE s

Trim(s) == TrimEnd(TrimStart(s))

ToLowerCase(s) == SeqMap(ToLowerChar, s)

\* s.normalize('NFD').replace(/\p{Diacritic}/gu, '').toLowerCase().trim()
normalize(s) == Trim(ToLowerCase(SeqMap(StripDiacritic, s)))

\* String(email).toLowerCase().trim()
emailKey(s) == Trim(ToLowerCase(s))

Includes(s, sub) ==
    \E i \in 1..(Len(s) - Len(sub) + 1) : SubSeq(s, i, i + Len(sub) - 1) = sub

\* a || b on strings: the empty string is falsy
OrStr(a, b) == IF a # <<>> THEN a ELSE b

\* a ?? b on numbers
Coalesce(a, b) == IF a # Null THEN a ELSE b

\* String(x).replace(/^contract-/, '')
StripContractPrefix(s) ==
    IF s # <<>> /\ Head(s) = "contract-" THEN Tail(s) ELSE s

entrega == <<"e", "n", "t", "r", "e", "g", "a">>
EntregarPrefix == <<"E", "n", "t", "r", "e", "g", "a", "r", " ">>
EntregaDeProductos ==
    <<"E", "n", "t", "r", "e", "g", "a", " ", "d", "e", " ",
      "p", "r", "o", "d", "u", "c", "t", "o", "s">>

isDelivery(cat) == Includes(normalize(cat.name), entrega)

----------------------------------------------------------------------------
(* Documents *)

\* a line item of an order or of a contract (storeItems[])
Item(name, pid, qty, quantity, price, total) ==
    [name |-> name, product_id |-> pid, qty |-> qty, quantity |-> quantity,
     price |-> price, total |-> total]

\* a row of the reconciled display list (OrderLineItem with name/qty/price/total)
Row(name, qty, price, total) ==
    [name |-> name, qty |-> qty, price |-> price, total |-> total]

Task(id, title, done) ==
    [id |-> id, title |-> title, done |-> done, due |-> Null, note |-> <<>>]

Category(id, name, tasks) == [id |-> id, name |-> name, tasks |-> tasks]

\* the value of a contract lookup that found nothing (null / undefined)
NoContract ==
    [id |-> <<>>, clientEmail |-> <<>>, storeItems |-> <<>>, workflow |-> <<>>,
     depositPaid |-> FALSE, travelFee |-> Null, createdAt |-> Null]

\* the value of `viewing` when no order is open (null)
NoOrder ==
    [id |-> <<>>, customer_email |-> <<>>, clientEmail |-> <<>>,
     contractId |-> <<>>, items |-> <<>>, total |-> Null, totalAmount |-> Null,
     created_at |-> Null, createdAt |-> Null, status |-> "", workflow |-> <<>>,
     depositPaid |-> FALSE, deliveredAt |-> Null]

----------------------------------------------------------------------------
(* ensureDeliveryTasks *)

\* uid(): the k-th identifier handed out; existing identifiers are >= 100
uid(k) == k

RECURSIVE pushMissing_mut_always(_, _, _)
pushMissing_mut_always(tasks, names, u) ==
    IF names = <<>> THEN tasks
    ELSE pushMissing_mut_always(
             Append(tasks, Task(uid(u + 1), EntregarPrefix \o Head(names), FALSE)),
             Tail(names), u + 1)

RECURSIVE pushMissing_mut_done(_, _, _)
pushMissing_mut_done(tasks, names, u) ==
    IF names = <<>> THEN tasks
    ELSE LET title == EntregarPrefix \o Head(names)
             present == \E i \in 1..Len(tasks) :
                            normalize(tasks[i].title) = normalize(title)
         IN IF present
            THEN pushMissing_mut_done(tasks, Tail(names), u)
            ELSE pushMissing_mut_done(Append(tasks, Task(uid(u + 1), title, TRUE)),
                                      Tail(names), u + 1)

\* productNames.forEach(n => { if (!cat.tasks.some(...)) cat.tasks.push(...) })
RECURSIVE pushMissing(_, _, _)
pushMissing(tasks, names, u) ==
    IF names = <<>> THEN tasks
    ELSE LET title == EntregarPrefix \o Head(names)
             present == \E i \in 1..Len(tasks) :
                            normalize(tasks[i].title) = normalize(title)
         IN IF present
            THEN pushMissing(tasks, Tail(names), u)
            ELSE pushMissing(Append(tasks, Task(uid(u + 1), title, FALSE)),
                             Tail(names), u + 1)

\* cloned.findIndex(c => normalize(c.name).includes('entrega')); 0 stands for -1
findDeliveryIdx(wf) ==
    IF \E i \in 1..Len(wf) : isDelivery(wf[i])
    THEN CHOOSE i \in 1..Len(wf) :
             isDelivery(wf[i]) /\ \A j \in 1..(i - 1) : ~isDelivery(wf[j])
    ELSE 0

ensureDeliveryTasks_mut_front(base, productNames, u) ==
    IF findDeliveryIdx(base) > 0
    THEN [base EXCEPT ![findDeliveryIdx(base)].tasks = pushMissing(@, productNames, u)]
    ELSE <<Category(uid(u + 1), EntregaDeProductos,
                    pushMissing(<<>>, productNames, u + 1))>> \o base

\* u is the number of identifiers handed out before the call
ensureDeliveryTasks(base, productNames, u) ==
    LET findIdx == findDeliveryIdx(base)
        cloned == IF findIdx = 0
                  THEN Append(base, Category(uid(u + 1), EntregaDeProductos, <<>>))
                  ELSE base
        idx == IF findIdx > 0 THEN findIdx ELSE Len(base) + 1
        u1 == IF findIdx = 0 THEN u + 1 ELSE u
    IN [cloned EXCEPT ![idx].tasks = pushMissing(cloned[idx].tasks, productNames, u1)]

RECURSIVE countIds(_)
countIds(wf) ==
    IF wf = <<>> THEN 0 ELSE 1 + Len(Head(wf).tasks) + countIds(Tail(wf))

\* identifiers a call of ensureDeliveryTasks(base, productNames) draws from uid()
uidsDrawn(base, productNames) ==
    countIds(ensureDeliveryTasks(base, productNames, 0)) - countIds(base)

----------------------------------------------------------------------------
(* getDisplayItems *)

\* contractsMap[id]; the lookup is a list of contracts in insertion order
contractById(cMap, id) ==
    IF \E i \in 1..Len(cMap) : cMap[i].id = id
    THEN cMap[CHOOSE i \in 1..Len(cMap) : cMap[i].id = id]
    ELSE NoContract

\* Object.values(contractsMap).find(x => emailKey(x.clientEmail) === key)
findByEmail(cMap, key) ==
    IF \E i \in 1..Len(cMap) : emailKey(cMap[i].clientEmail) = key
    THEN cMap[CHOOSE i \in 1..Len(cMap) :
                  /\ emailKey(cMap[i].clientEmail) = key
                  /\ \A j \in 1..(i - 1) : emailKey(cMap[j].clientEmail) # key]
    ELSE NoContract

resolveContract_mut_idonly(o, cMap, cByEmail) ==
    IF o.contractId # <<>> THEN contractById(cMap, o.contractId) ELSE NoContract

\* the contract an order resolves to: explicit id, else normalised customer email
resolveContract(o, cMap, cByEmail) ==
    LET byId == IF o.contractId # <<>> THEN contractById(cMap, o.contractId)
                ELSE NoContract
    IN IF byId = NoContract /\ o.customer_email # <<>>
       THEN LET key == emailKey(o.customer_email)
            IN IF key \in DOMAIN cByEmail THEN cByEmail[key]
               ELSE findByEmail(cMap, key)
       ELSE byId

\* oi.name || oi.product_id || oi.productId || ''
itemKey(oi) == OrStr(oi.name, oi.product_id)

\* the canonical contract item built from a storeItems entry
contractItem(si) ==
    LET q == Coalesce(si.quantity, Coalesce(si.qty, 1))
        p == Coalesce(si.price, 0)
    IN [name |-> si.name, quantity |-> q, price |-> p,
        total |-> IF si.total # Null THEN si.total ELSE p * q]

\* orderItems.find(oi => norm(key(oi)) === norm(ci.name)); 0 stands for undefined
findMatch(orderItems, ci) ==
    IF \E i \in 1..Len(orderItems) : normalize(itemKey(orderItems[i])) = normalize(ci.name)
    THEN CHOOSE i \in 1..Len(orderItems) :
             /\ normalize(itemKey(orderItems[i])) = normalize(ci.name)
             /\ \A j \in 1..(i - 1) :
                    normalize(itemKey(orderItems[j])) # normalize(ci.name)
    ELSE 0

mergedRow_mut_contractvalues(orderItems, ci) ==
    LET m == findMatch(orderItems, ci)
    IN IF m # 0
       THEN Row(OrStr(orderItems[m].name, ci.name), ci.quantity, ci.price, ci.total)
       ELSE Row(ci.name, ci.quantity, ci.price, ci.total)

mergedRow_mut_contractname(orderItems, ci) ==
    LET m == findMatch(orderItems, ci)
    IN IF m # 0
       THEN LET match == orderItems[m]
                qty == Coalesce(match.qty, Coalesce(match.quantity, ci.quantity))
                price == Coalesce(match.price, ci.price)
                total == IF match.total # Null THEN match.total ELSE price * qty
            IN Row(ci.name, qty, price, total)
       ELSE Row(ci.name, ci.quantity, ci.price, ci.total)

mergedRow(orderItems, ci) ==
    LET m == findMatch(orderItems, ci)
    IN IF m # 0
       THEN LET match == orderItems[m]
                qty == Coalesce(match.qty, Coalesce(match.quantity, ci.quantity))
                price == Coalesce(match.price, ci.price)
                total == IF match.total # Null THEN match.total ELSE price * qty
            IN Row(OrStr(match.name, ci.name), qty, price, total)
       ELSE Row(ci.name, ci.quantity, ci.price, ci.total)

plainRow_mut_nodefault(e) ==
    LET q == Coalesce(e.qty, Coalesce(e.quantity, 0))
        p == Coalesce(e.price, 0)
    IN Row(itemKey(e), q, p, IF e.total # Null THEN e.total ELSE p * q)

\* an order item normalised to name / qty / price / total
plainRow(e) ==
    LET q == Coalesce(e.qty, Coalesce(e.quantity, 1))
        p == Coalesce(e.price, 0)
    IN Row(itemKey(e), q, p, IF e.total # Null THEN e.total ELSE p * q)

getDisplayItems_mut_noextras(o, cMap, cByEmail) ==
    LET c == resolveContract(o, cMap, cByEmail)
    IN IF c # NoContract /\ Len(c.storeItems) > 0
       THEN LET contractItems == SeqMap(contractItem, c.storeItems)
            IN [i \in 1..Len(contractItems) |-> mergedRow(o.items, contractItems[i])]
       ELSE SeqMap(plainRow, o.items)

getDisplayItems_mut_allextras(o, cMap, cByEmail) ==
    LET c == resolveContract(o, cMap, cByEmail)
    IN IF c # NoContract /\ Len(c.storeItems) > 0
       THEN LET contractItems == SeqMap(contractItem, c.storeItems)
            IN [i \in 1..Len(contractItems) |-> mergedRow(o.items, contractItems[i])]
               \o SeqMap(plainRow, o.items)
       ELSE SeqMap(plainRow, o.items)

getDisplayItems(o, cMap, cByEmail) ==
    LET c == resolveContract(o, cMap, cByEmail)
        orderItems == o.items
    IN IF c # NoContract /\ Len(c.storeItems) > 0
       THEN LET contractItems == SeqMap(contractItem, c.storeItems)
                contractNames == {normalize(contractItems[i].name) :
                                     i \in 1..Len(contractItems)}
                merged == [i \in 1..Len(contractItems) |->
                              mergedRow(orderItems, contractItems[i])]
                isExtra(oi) == normalize(itemKey(oi)) \notin contractNames
                extras == SeqMap(plainRow, SelectSeq(orderItems, isExtra))
            IN merged \o extras
       ELSE SeqMap(plainRow, orderItems)

----------------------------------------------------------------------------
(* Input values *)

BoundedSeq(S, n) == UNION {[1..k -> S] : k \in 0..n}

AlbumA == <<"A", "l", "b", "u", "m", " ", "A">>
albuma == <<"a", "l", "b", "u", "m", " ", "a">>
AlbumAacc == <<"A'", "l", "b", "u", "m", " ", "A", " ">>
Foto == <<"F", "o", "t", "o">>
Prep == <<"P", "r", "e", "p">>
Edit == <<"E", "d", "i", "t">>
EntregasCaps == <<"E", "n", "t", "r", "E", "g", "A'", "s">>

EmailUpper == <<"A", "@", "x">>
EmailLower == <<"a", "@", "x", " ">>
EmailOther == <<"f", "@", "x">>

C1id == <<"c1">>
C2id == <<"c2">>

\* workflows handed to ensureDeliveryTasks
DeliveryTaskListA == <<Task(111, EntregarPrefix \o AlbumA, TRUE)>>
DeliveryTaskListB == <<Task(112, ToLowerCase(EntregarPrefix) \o AlbumAacc, FALSE)>>
DeliveryTaskListC ==
    <<Task(113, EntregarPrefix \o Foto, FALSE), Task(111, EntregarPrefix \o AlbumA, TRUE)>>

InputCategories ==
    { Category(100, Prep, <<[Task(101, Edit, TRUE) EXCEPT !.due = 5, !.note = Foto]>>),
      Category(110, EntregaDeProductos, <<>>),
      Category(110, EntregaDeProductos, DeliveryTaskListA),
      Category(120, EntregasCaps, DeliveryTaskListB),
      Category(120, EntregasCaps, DeliveryTaskListC) }

InputWorkflows == BoundedSeq(InputCategories, MaxCats)

InputNameLists == BoundedSeq({AlbumA, albuma, AlbumAacc, Foto, <<>>}, MaxNames)

\* line items stored on an order
InputOrderItems ==
    { Item(albuma, <<>>, 2, Null, 50, Null),
      Item(albuma, <<>>, Null, Null, Null, Null),
      Item(AlbumAacc, <<>>, Null, 1, 50, 70),
      Item(AlbumAacc, <<>>, Null, Null, Null, 70),
      Item(Foto, <<>>, 2, Null, 50, Null),
      Item(Foto, <<>>, Null, 1, Null, Null),
      Item(<<>>, albuma, 2, Null, 50, Null),
      Item(<<>>, albuma, Null, Null, Null, Null) }

\* purchased items stored on a contract
InputStoreItems ==
    { Item(AlbumA, <<>>, Null, 2, 100, Null),
      Item(Foto, <<>>, Null, Null, 30, 90),
      Item(albuma, <<>>, 1, Null, Null, Null) }

InputContract(id, email, storeItems, fee) ==
    [id |-> id, clientEmail |-> email, storeItems |-> storeItems,
     workflow |-> <<>>, depositPaid |-> FALSE, travelFee |-> fee, createdAt |-> 1]

InputOrder(id, cid, email, items) ==
    [id |-> id, customer_email |-> email, clientEmail |-> <<>>,
     contractId |-> cid, items |-> items, total |-> Null, totalAmount |-> Null,
     created_at |-> 1, createdAt |-> Null, status |-> "pendiente",
     workflow |-> <<>>, depositPaid |-> FALSE, deliveredAt |-> Null]

C2Foto == InputContract(C2id, EmailLower, <<Item(Foto, <<>>, Null, 1, 30, Null)>>, Null)

\* how the input order refers to a contract, and the contracts loaded: by the id
\* of c1; by an email that c1 alone has; by an email that c1 and c2 share; by an
\* id no loaded contract has; not at all; by the id of c2 and the email of c1; by an
\* id no loaded contract has and the email of c1
InputLinks ==
    { [cid |-> C1id, email |-> <<>>, others |-> <<>>, loaded |-> TRUE],
      [cid |-> <<>>, email |-> EmailUpper, others |-> <<>>, loaded |-> TRUE],
      [cid |-> <<>>, email |-> EmailUpper, others |-> <<C2Foto>>, loaded |-> TRUE],
      [cid |-> C1id, email |-> <<>>, others |-> <<>>, loaded |-> FALSE],
      [cid |-> <<>>, email |-> <<>>, others |-> <<>>, loaded |-> TRUE],
      [cid |-> C2id, email |-> EmailUpper,
       others |-> <<[C2Foto EXCEPT !.clientEmail = EmailOther]>>, loaded |-> TRUE],
      [cid |-> <<"c9">>, email |-> EmailUpper, others |-> <<>>, loaded |-> TRUE] }

\* the orders and contract lookups getDisplayItems is tried on
InputDisplayCases ==
    {[order |-> InputOrder(<<"o1">>, l.cid, l.email, its),
      map |-> IF l.loaded
              THEN <<InputContract(C1id, EmailLower, si, Null)>> \o l.others
              ELSE <<>>] :
        l \in InputLinks,
        its \in BoundedSeq(InputOrderItems, MaxItems),
        si \in BoundedSeq(InputStoreItems, MaxStore)}

----------------------------------------------------------------------------
(* loadContractsMap: the two lookups built from the contract documents *)

\* byEmail[email] = data, for each document in turn: the last one wins
byEmailOf(docs) ==
    LET keys == {emailKey(docs[i].clientEmail) : i \in 1..Len(docs)} \ {<<>>}
    IN [k \in keys |->
           docs[CHOOSE i \in 1..Len(docs) :
                    /\ emailKey(docs[i].clientEmail) = k
                    /\ \A j \in (i + 1)..Len(docs) : emailKey(docs[j].clientEmail) # k]]

----------------------------------------------------------------------------
(* fetchOrders: the loader *)

\* Number(x) || d
NumOr(x, d) == IF x = 0 THEN d ELSE x

\* new Date().toISOString(): a stamp later than every stored one
NowStamp == 9

\* the value of an ordering field of a document
fieldOf(d, field) == IF field = "created_at" THEN d.created_at ELSE d.createdAt

RECURSIVE insertDesc(_, _, _)
insertDesc(sorted, d, field) ==
    IF sorted = <<>> THEN <<d>>
    ELSE IF fieldOf(Head(sorted), field) >= fieldOf(d, field)
         THEN <<Head(sorted)>> \o insertDesc(Tail(sorted), d, field)
         ELSE <<d>> \o sorted

\* documents by descending value of the field, equal values in their stored order
RECURSIVE sortDesc(_, _)
sortDesc(docs, field) ==
    IF docs = <<>> THEN <<>>
    ELSE insertDesc(sortDesc(SubSeq(docs, 1, Len(docs) - 1), field),
                    docs[Len(docs)], field)

has_created_at(d) == d.created_at # Null
has_createdAt(d) == d.createdAt # Null

\* getDocs(query(collection(db,'orders'), orderBy('created_at','desc'))): an ordered
\* query returns the documents that hold the ordering field, latest first
ordersByCreatedAt(docs) == sortDesc(SelectSeq(docs, has_created_at), "created_at")

\* getDocs(collection(db,'orders')) followed by the client-side sort
ordersUnordered(docs) == sortDesc(docs, "created_at")

\* getDocs(query(collection(db,'contracts'), orderBy('createdAt','desc')))
contractsByCreatedAt(docs) == sortDesc(SelectSeq(docs, has_createdAt), "createdAt")

\* items.some(it => String(it.contractId || ...).replace(/^contract-/, '') === String(c.id))
existsInItems(items, c) ==
    \E i \in 1..Len(items) :
        items[i].contractId # <<>> /\ StripContractPrefix(items[i].contractId) = c.id

\* getDocs(query(collection(db,'orders'), where('contractId','==',c.id)))
ordersOfContract(docs, c) ==
    LET tagged(d) == d.contractId = c.id IN SelectSeq(docs, tagged)

\* the line item the loader derives from a stored one
loaderItem(it) ==
    LET qty == NumOr(Coalesce(it.quantity, Coalesce(it.qty, 1)), 1)
        price == NumOr(Coalesce(it.price, 0), 0)
    IN [qty |-> qty, price |-> price,
        total |-> IF it.total # Null THEN it.total ELSE price * qty]

aggItem(it) ==
    LET n == loaderItem(it)
    IN Item(OrStr(it.name, it.product_id), <<>>, n.qty, Null, n.price, n.total)

RECURSIVE flattenItems(_)
flattenItems(existingOrders) ==
    IF existingOrders = <<>> THEN <<>>
    ELSE SeqMap(aggItem, Head(existingOrders).items) \o flattenItems(Tail(existingOrders))

RECURSIVE sumTotals(_)
sumTotals(items) ==
    IF items = <<>> THEN 0 ELSE Coalesce(Head(items).total, 0) + sumTotals(Tail(items))

aggregatedOrder_mut_firstrow(c, existingOrders) ==
    LET aggItems == flattenItems(<<existingOrders[1]>>)
        first == existingOrders[1]
    IN [id |-> first.id, customer_email |-> c.clientEmail, clientEmail |-> <<>>,
        contractId |-> c.id, items |-> aggItems, total |-> sumTotals(aggItems),
        totalAmount |-> Null,
        created_at |-> Coalesce(first.createdAt, Coalesce(first.created_at, NowStamp)),
        createdAt |-> Null,
        status |-> IF first.status # "" THEN first.status ELSE "pendiente",
        workflow |-> c.workflow, depositPaid |-> FALSE, deliveredAt |-> Null]

\* the synthetic order that aggregates the order rows tagged with contract c
aggregatedOrder(c, existingOrders) ==
    LET aggItems == flattenItems(existingOrders)
        first == existingOrders[1]
    IN [id |-> first.id, customer_email |-> c.clientEmail, clientEmail |-> <<>>,
        contractId |-> c.id, items |-> aggItems, total |-> sumTotals(aggItems),
        totalAmount |-> Null,
        created_at |-> Coalesce(first.createdAt, Coalesce(first.created_at, NowStamp)),
        createdAt |-> Null,
        status |-> IF first.status # "" THEN first.status ELSE "pendiente",
        workflow |-> c.workflow, depositPaid |-> FALSE, deliveredAt |-> Null]

itemForOrder(si) ==
    LET n == loaderItem(si)
    IN Item(si.name, <<>>, Null, n.qty, n.price, n.total)

orderData_mut_nofee(c) ==
    LET itemsForOrder == SeqMap(itemForOrder, c.storeItems)
    IN [id |-> <<>>, customer_email |-> <<>>, clientEmail |-> c.clientEmail,
        contractId |-> c.id, items |-> itemsForOrder, total |-> Null,
        totalAmount |-> sumTotals(itemsForOrder),
        created_at |-> Null, createdAt |-> Coalesce(c.createdAt, NowStamp),
        status |-> "pending", workflow |-> <<>>, depositPaid |-> FALSE,
        deliveredAt |-> Null]

\* the order document the loader creates from contract c (before addDoc names it)
orderData(c) ==
    LET itemsForOrder == SeqMap(itemForOrder, c.storeItems)
    IN [id |-> <<>>, customer_email |-> <<>>, clientEmail |-> c.clientEmail,
        contractId |-> c.id, items |-> itemsForOrder, total |-> Null,
        totalAmount |-> sumTotals(itemsForOrder) + Coalesce(c.travelFee, 0),
        created_at |-> Null, createdAt |-> Coalesce(c.createdAt, NowStamp),
        status |-> "pending", workflow |-> <<>>, depositPaid |-> FALSE,
        deliveredAt |-> Null]

\* the identifier addDoc gives the k-th document it creates
newDocId(k) ==
    CASE k = 1 -> <<"n1">> [] k = 2 -> <<"n2">> [] k = 3 -> <<"n3">>
      [] k = 4 -> <<"n4">> [] k = 5 -> <<"n5">> [] k = 6 -> <<"n6">>
      [] k = 7 -> <<"n7">> [] k = 8 -> <<"n8">> [] OTHER -> <<"n9">>

\* one turn of `for (const c of contractsList)`; acc carries the collection, the
\* generated orders, the documents created so far
ensureOrdersStep(c, items, fail, acc) ==
    IF Len(c.storeItems) = 0 THEN acc
    ELSE IF existsInItems(items, c) THEN acc
    ELSE LET existingOrders == IF c.id \in fail.lookup THEN <<>>
                               ELSE ordersOfContract(acc.db, c)
         IN IF Len(existingOrders) > 0
            THEN [acc EXCEPT !.gen = Append(@, aggregatedOrder(c, existingOrders)),
                             !.calls = Append(@, "lookup")]
            ELSE IF c.id \in fail.add
            THEN [acc EXCEPT !.calls = @ \o <<"lookup", "addDoc">>]
            ELSE LET made == [orderData(c) EXCEPT !.id = newDocId(acc.next + 1)]
                 IN [db |-> Append(acc.db, made), gen |-> Append(acc.gen, made),
                     next |-> acc.next + 1, made |-> Append(acc.made, made),
                     calls |-> acc.calls \o <<"lookup", "addDoc">>]

RECURSIVE ensureOrders(_, _, _, _)
ensureOrders(contractsList, items, fail, acc) ==
    IF contractsList = <<>> THEN acc
    ELSE ensureOrders(Tail(contractsList), items, fail,
                      ensureOrdersStep(Head(contractsList), items, fail, acc))

loadedItems_mut_nofallback(docs, fail) ==
    IF ~fail.ordered THEN ordersByCreatedAt(docs) ELSE <<>>

\* the orders read at the start of a run: ordered query, else unordered scan, else none
loadedItems(docs, fail) ==
    IF ~fail.ordered THEN ordersByCreatedAt(docs)
    ELSE IF ~fail.fallback THEN ordersUnordered(docs)
    ELSE <<>>

----------------------------------------------------------------------------
(* The database at the start *)

ContractIds == {C1id, C2id}

PrefixedC1 == <<"contract-", "c1">>

\* purchased items of contract c1
LoaderStoreLists0 == <<>>
LoaderStoreLists1 == <<Item(AlbumA, <<>>, Null, 2, 100, Null)>>
LoaderStoreLists2 ==
    <<Item(AlbumA, <<>>, Null, 2, 100, Null), Item(Foto, <<>>, Null, Null, 30, 90)>>
LoaderStoreLists3 ==
    <<Item(albuma, <<>>, 1, Null, Null, Null), Item(AlbumA, <<>>, Null, 2, 100, Null)>>

C2doc ==
    [InputContract(C2id, EmailOther, <<Item(Foto, <<>>, Null, 1, 30, Null)>>, Null)
        EXCEPT !.createdAt = 2]

\* collection 'contracts' at the start: c1 alone, or c1 and the later c2
InputDbContracts ==
    { <<InputContract(C1id, EmailLower, LoaderStoreLists0, Null)>>,
      <<InputContract(C1id, EmailLower, LoaderStoreLists1, Null)>>,
      <<InputContract(C1id, EmailLower, LoaderStoreLists2, 30)>>,
      <<InputContract(C1id, EmailLower, LoaderStoreLists3, Null), C2doc>> }

\* an order document held at the start: tagged with c1 (plain or prefixed) or with
\* no contract, holding created_at or only createdAt
StartOrderShapes ==
    { << <<>>, 2>>, <<C1id, 2>>, <<C1id, Null>>, <<PrefixedC1, 2>> }

StartOrder(k, shape) ==
    [InputOrder(<<"o", newDocId(k)[1]>>, shape[1], EmailUpper,
                <<Item(albuma, <<>>, 1, Null, 50, Null)>>)
        EXCEPT !.created_at = shape[2],
               !.createdAt = IF shape[2] = Null THEN 1 ELSE Null]

InputDbOrders ==
    {[k \in 1..Len(shapes) |-> StartOrder(k, shapes[k])] :
        shapes \in BoundedSeq(StartOrderShapes, MaxStart)}

\* collection 'workflowTemplates'
DbTemplates ==
    <<[id |-> <<"t1">>, name |-> Prep,
       categories |-> <<Category(100, Prep, <<Task(101, Edit, TRUE)>>)>>]>>

----------------------------------------------------------------------------
(* History of the workflow handlers *)

\* what a run of a workflow handler saw and did: the handler, the order it ran on,
\* the contract it targeted, whether a database call of it failed, the database and
\* the staged workflow before it, the task position and value of a checkbox toggle,
\* the database calls it made, in order, which of its calls were made to fail, and
\* the order that was open before it
OpRecord(kind, id, target, failed, preO, preC, preW, at, log, fails, preV) ==
    [kind |-> kind, id |-> id, target |-> target, failed |-> failed,
     preOrders |-> preO, preContracts |-> preC,
     preWorkflow |-> preW, at |-> at, log |-> log,
     fails |-> fails, preViewing |-> preV]

NoOp ==
    OpRecord("none", <<>>, <<>>, FALSE, <<>>, <<>>, <<>>, <<0, 0, FALSE>>, <<>>,
             {}, NoOrder)

----------------------------------------------------------------------------
(* Actions of the order management screen *)

NoFailure ==
    [products |-> FALSE, ordered |-> FALSE, fallback |-> FALSE, contracts |-> FALSE,
     lookup |-> {}, add |-> {}]

\* which database calls of a loader run fail: the read of the products, the
\* ordered read of the orders and then the unordered one, the read of the
\* contracts, and per contract the lookup of its order rows and the creation of
\* its order (calls that a failure keeps from being issued do not fail)
Failures ==
    {f \in [products : BOOLEAN, ordered : BOOLEAN, fallback : BOOLEAN, contracts : BOOLEAN,
            lookup : SUBSET {dbContracts[i].id : i \in 1..Len(dbContracts)},
            add : SUBSET {dbContracts[i].id : i \in 1..Len(dbContracts)}] :
        /\ f.fallback => f.ordered
        /\ f.contracts => (f.lookup = {} /\ f.add = {})}

madeFor(made, c) == LET of_c(d) == d.contractId = c IN Len(SelectSeq(made, of_c))

loaderCalls_mut_readsoffline(online, fail, calls) ==
    <<"products">>

\* the database calls one run of the loader issues, in order: none when offline
loaderCalls(online, fail, calls) ==
    IF ~online THEN <<>>
    ELSE <<"products", "ordersByCreatedAt">>
         \o (IF fail.ordered THEN <<"orders">> ELSE <<>>)
         \o <<"contracts">>
         \o (IF fail.contracts THEN <<>> ELSE calls)

\* the record of a loader run before any has run
NoRun ==
    [online |-> FALSE, failed |-> FALSE, before |-> <<>>, made |-> <<>>,
     fail |-> NoFailure, calls |-> <<>>]

\* fetchOrders(): one whole run of the loader. The products lookups it also
\* rebuilds only feed thumbnails; of them only the read and its failure are kept.
FetchOrders ==
    /\ runs < MaxRuns
    /\ \E online \in BOOLEAN :
       \E fail \in IF online THEN Failures ELSE {NoFailure} :
         LET items == loadedItems(dbOrders, fail)
             acc0 == [db |-> dbOrders, gen |-> <<>>, next |-> nextDoc, made |-> <<>>,
                      calls |-> <<>>]
             acc == IF fail.contracts THEN acc0
                    ELSE ensureOrders(contractsByCreatedAt(dbContracts), items, fail, acc0)
         IN IF ~online
            THEN /\ orders' = <<>>
                 /\ UNCHANGED <<dbOrders, nextDoc, madeBy>>
                 /\ lastRun' = [online |-> FALSE, failed |-> FALSE,
                                before |-> dbOrders, made |-> <<>>,
                                fail |-> NoFailure,
                                calls |-> loaderCalls(FALSE, fail, acc.calls)]
            ELSE /\ orders' = items \o acc.gen
                 /\ dbOrders' = acc.db
                 /\ nextDoc' = acc.next
                 /\ madeBy' = [c \in ContractIds |->
                                  IF runs = 0
                                  THEN [madeBy[c] EXCEPT !.first = @ + madeFor(acc.made, c)]
                                  ELSE [madeBy[c] EXCEPT !.later = @ + madeFor(acc.made, c)]]
                 /\ lastRun' = [online |-> TRUE, failed |-> fail # NoFailure,
                                before |-> dbOrders, made |-> acc.made,
                                fail |-> fail,
                                calls |-> loaderCalls(TRUE, fail, acc.calls)]
    /\ loading' = FALSE
    /\ runs' = runs + 1
    /\ UNCHANGED <<dbContracts, contractsMap, contractsByEmail, viewing, workflow,
                   wfEditMode, templates, uidCtr, startOrders>>
    /\ lastOp' = NoOp /\ prevOp' = NoOp /\ UNCHANGED <<edits, writes, failures>>
    /\ UNCHANGED <<ensureVars, displayVars, adminVars, stepVars>>

\* loadContractsMap(): both lookups rebuilt from the collection, emptied on failure
LoadContractsMap ==
    /\ \E fail \in BOOLEAN :
         LET docs == IF fail THEN <<>> ELSE dbContracts
         IN /\ contractsMap' = docs
            /\ contractsByEmail' = byEmailOf(docs)
    /\ UNCHANGED <<dbOrders, dbContracts, nextDoc, orders, loading, viewing, workflow,
                   wfEditMode, templates, uidCtr, runs, lastRun, madeBy, startOrders>>
    /\ lastOp' = NoOp /\ prevOp' = NoOp /\ UNCHANGED <<edits, writes, failures>>
    /\ UNCHANGED <<ensureVars, displayVars, adminVars, stepVars>>

rowName(r) == r.name

\* openWorkflow(o) for an order of the list. getDisplayItems reads the lookups of
\* the render the handler was created in, also when the handler reloads them.
OpenWorkflow ==
    /\ \E i \in 1..Len(orders), failMap \in BOOLEAN, failTpl \in BOOLEAN :
         LET o == orders[i]
             reload == Len(contractsMap) = 0
             docs == IF failMap THEN <<>> ELSE dbContracts
             base == o.workflow
             items == getDisplayItems(o, contractsMap, contractsByEmail)
             names == SeqMap(rowName, items)
             wf == ensureDeliveryTasks(base, names, uidCtr)
             fetchTpl == Len(templates) = 0
         IN /\ uidCtr + uidsDrawn(base, names) <= MaxUid
            /\ (~reload => ~failMap)
            /\ (~fetchTpl => ~failTpl)
            /\ viewing' = o
            /\ contractsMap' = IF reload THEN docs ELSE contractsMap
            /\ contractsByEmail' = IF reload THEN byEmailOf(docs) ELSE contractsByEmail
            /\ workflow' = wf
            /\ uidCtr' = uidCtr + uidsDrawn(base, names)
            /\ templates' = IF fetchTpl /\ ~failTpl THEN DbTemplates ELSE templates
            /\ wfEditMode' = IF fetchTpl /\ failTpl THEN wfEditMode ELSE FALSE
    /\ UNCHANGED <<dbOrders, dbContracts, nextDoc, orders, loading, runs, lastRun,
                   madeBy, startOrders>>
    /\ lastOp' = NoOp /\ prevOp' = NoOp /\ UNCHANGED <<edits, writes, failures>>
    /\ UNCHANGED <<ensureVars, displayVars, adminVars, stepVars>>

IdleEnsure ==
    /\ edW = <<>> /\ edN = <<>> /\ edOut = <<>> /\ edOut2 = <<>> /\ edPc = "idle"

IdleDisplay ==
    /\ gdOrder = NoOrder /\ gdOut = <<>> /\ gdPc = "idle"

\* the record of submitAdminModal before any run
NoSubmit ==
    [ran |-> FALSE, email |-> <<>>, password |-> <<>>, online |-> TRUE,
     signIn |-> "none", code |-> "", net |-> FALSE, wasAdmin |-> FALSE,
     wasStored |-> FALSE, wasPath |-> "/", events |-> 0]

IdleAdmin ==
    /\ isAdmin = FALSE /\ showAdminModal = FALSE
    /\ adminEmail = <<>> /\ adminPassword = <<>> /\ adminModalError = <<>>
    /\ siteAdminMode = FALSE /\ adminEvents = <<>> /\ path = "/"
    /\ lastSubmit = NoSubmit /\ submits = 0

IdleSteps ==
    /\ sessions = <<>> /\ inflight = <<>> /\ trace = <<>> /\ loads = <<>>

IdleEditor ==
    /\ lastOp = NoOp /\ prevOp = NoOp /\ edits = 0 /\ writes = 0 /\ failures = 0

IdleScreen ==
    /\ dbOrders = <<>> /\ dbContracts = <<>> /\ nextDoc = 0
    /\ orders = <<>> /\ loading = FALSE
    /\ viewing = NoOrder /\ workflow = <<>> /\ wfEditMode = FALSE
    /\ templates = <<>> /\ runs = 0
    /\ lastRun = NoRun
    /\ madeBy = [c \in ContractIds |-> [first |-> 0, later |-> 0]]
    /\ startOrders = <<>>
    /\ IdleEditor

\* the screen after construction, over a database drawn from the input values
InitOver(startLists) ==
    /\ dbOrders \in startLists
    /\ dbContracts \in InputDbContracts
    /\ nextDoc = 0
    /\ orders = <<>> /\ loading = FALSE
    /\ contractsMap = <<>> /\ contractsByEmail = <<>>
    /\ viewing = NoOrder /\ workflow = <<>> /\ wfEditMode = FALSE
    /\ templates = <<>> /\ uidCtr = 0 /\ runs = 0
    /\ lastRun = NoRun
    /\ madeBy = [c \in ContractIds |-> [first |-> 0, later |-> 0]]
    /\ startOrders = dbOrders
    /\ IdleEditor /\ IdleEnsure /\ IdleDisplay /\ IdleAdmin /\ IdleSteps

\* the screen over a database that holds no order, or one order of contract c1
Init == InitOver({<<>>, <<StartOrder(1, <<C1id, 2>>)>>})

Next == FetchOrders \/ LoadContractsMap \/ OpenWorkflow

Spec == Init /\ [][Next]_vars

----------------------------------------------------------------------------
(* The loader run again and again, over every database of the input values *)

InitLoader == InitOver(InputDbOrders)

NextLoader == FetchOrders

SpecLoader == InitLoader /\ [][NextLoader]_vars

----------------------------------------------------------------------------
(* The workflow panel: what its handlers compute *)

MaxEdits == 1        \* changes to the staged workflow in one behaviour
MaxSteps == 2        \* those changes and the runs of save, toggle, mark paid and reset
MaxFailures == 1     \* failing database calls of those handlers in one behaviour

\* a field stored as null, where Null is an absent field
JsNull == -2

\* the three filter values of a status and the value the loader writes
Pendiente == "pendiente"
Completado == "completado"

\* viewing.contractId, else the id of the contract matched by customer email
targetContractId(v, cMap, cByEmail) ==
    IF v.contractId # <<>> THEN v.contractId
    ELSE IF v.customer_email # <<>>
         THEN LET key == emailKey(v.customer_email)
                  matched == IF key \in DOMAIN cByEmail THEN cByEmail[key]
                             ELSE findByEmail(cMap, key)
              IN matched.id
         ELSE <<>>

setDeliveryDone_mut_none(wf, flag) == wf

\* cat.tasks.map(t => ({ ...t, done: flag })) on the categories named 'entrega'
setDeliveryDone(wf, flag) ==
    [i \in 1..Len(wf) |->
        IF isDelivery(wf[i])
        THEN [wf[i] EXCEPT !.tasks =
                 [j \in 1..Len(wf[i].tasks) |-> [wf[i].tasks[j] EXCEPT !.done = flag]]]
        ELSE wf[i]]

\* tasks.find(ot => normalize(ot.title) === normalize(title)); 0 stands for undefined
findTitle(tasks, title) ==
    IF \E i \in 1..Len(tasks) : normalize(tasks[i].title) = normalize(title)
    THEN CHOOSE i \in 1..Len(tasks) :
             /\ normalize(tasks[i].title) = normalize(title)
             /\ \A j \in 1..(i - 1) : normalize(tasks[j].title) # normalize(title)
    ELSE 0

mergeDone_mut_overwrite(merged, ordWf) == ordWf

\* the done flags of the order's first delivery category copied, by title, onto the
\* tasks of every delivery category of merged
mergeDone(merged, ordWf) ==
    LET oi == findDeliveryIdx(ordWf)
    IN IF oi = 0 THEN merged
       ELSE [i \in 1..Len(merged) |->
                IF isDelivery(merged[i])
                THEN [merged[i] EXCEPT !.tasks =
                         [j \in 1..Len(merged[i].tasks) |->
                             LET t == merged[i].tasks[j]
                                 m == findTitle(ordWf[oi].tasks, t.title)
                             IN IF m = 0 THEN t
                                ELSE [t EXCEPT !.done = ordWf[oi].tasks[m].done]]]
                ELSE merged[i]]

setTaskDone_mut_always(wf, ci, ti, checked) == [wf EXCEPT ![ci].tasks[ti].done = TRUE]

\* workflow.map((c, ci2) => ci2 === ci ? { ...c, tasks: ...done: checked... } : c)
setTaskDone(wf, ci, ti, checked) == [wf EXCEPT ![ci].tasks[ti].done = checked]

writeOrderWorkflow_mut_skip(docs, id, wf) == docs

\* updateDoc(doc(db, 'orders', id), { workflow })
writeOrderWorkflow(docs, id, wf) ==
    [i \in 1..Len(docs) |->
        IF docs[i].id = id THEN [docs[i] EXCEPT !.workflow = wf] ELSE docs[i]]

writeOrderPaid_mut_stillpaid(docs, id, wf, paid, status, stamp) ==
    [i \in 1..Len(docs) |->
        IF docs[i].id = id
        THEN [docs[i] EXCEPT !.workflow = wf, !.depositPaid = TRUE,
                             !.status = status, !.deliveredAt = stamp]
        ELSE docs[i]]

writeOrderPaid_mut_keepstatus(docs, id, wf, paid, status, stamp) ==
    [i \in 1..Len(docs) |->
        IF docs[i].id = id
        THEN [docs[i] EXCEPT !.workflow = wf, !.depositPaid = paid,
                             !.deliveredAt = stamp]
        ELSE docs[i]]

\* updateDoc(doc(db, 'orders', id), { workflow, depositPaid, status, deliveredAt })
writeOrderPaid(docs, id, wf, paid, status, stamp) ==
    [i \in 1..Len(docs) |->
        IF docs[i].id = id
        THEN [docs[i] EXCEPT !.workflow = wf, !.depositPaid = paid,
                             !.status = status, !.deliveredAt = stamp]
        ELSE docs[i]]

\* updateDoc(doc(db, 'orders', id), { status })
writeOrderStatus(docs, id, status) ==
    [i \in 1..Len(docs) |->
        IF docs[i].id = id THEN [docs[i] EXCEPT !.status = status] ELSE docs[i]]

writeContract_mut_firstwins(docs, id, wf, setsPaid, paid) ==
    [i \in 1..Len(docs) |->
        IF docs[i].id = id /\ docs[i].workflow = <<>>
        THEN [docs[i] EXCEPT !.workflow = wf] ELSE docs[i]]

\* updateDoc(cRef, { workflow: merged }), with depositPaid when the handler sets it
writeContract(docs, id, wf, setsPaid, paid) ==
    [i \in 1..Len(docs) |->
        IF docs[i].id = id
        THEN [docs[i] EXCEPT !.workflow = wf,
                             !.depositPaid = IF setsPaid THEN paid ELSE @]
        ELSE docs[i]]

\* the contract part of a handler for the contract id target. mode says what becomes of the delivery flags:
\* "merge" copies them from the order workflow ordWf, "done" and "undone" set them
\* all. F holds the database calls that fail. The result carries the collection,
\* the identifiers handed out, the calls made, and whether one failed.
syncWith(target, contract, names, ordWf, mode, F, docs, u) ==
    LET ensured == ensureDeliveryTasks(contract.workflow, names, u)
        merged == CASE mode = "merge" -> mergeDone(ensured, ordWf)
                    [] mode = "done" -> setDeliveryDone(ensured, TRUE)
                    [] OTHER -> setDeliveryDone(ensured, FALSE)
        u1 == u + uidsDrawn(contract.workflow, names)
    IN IF target = <<>>
       THEN [db |-> docs, u |-> u, log |-> <<>>, failed |-> FALSE, wrote |-> FALSE]
       ELSE IF "cread" \in F
       THEN [db |-> docs, u |-> u, log |-> <<"getContract">>,
             failed |-> TRUE, wrote |-> FALSE]
       ELSE IF contract = NoContract
       THEN [db |-> docs, u |-> u, log |-> <<"getContract">>,
             failed |-> FALSE, wrote |-> FALSE]
       ELSE IF "cwrite" \in F
       THEN [db |-> docs, u |-> u1, log |-> <<"getContract", "updateContract">>,
             failed |-> TRUE, wrote |-> FALSE]
       ELSE [db |-> writeContract(docs, target, merged, mode # "merge", mode = "done"),
             u |-> u1, log |-> <<"getContract", "updateContract">>,
             failed |-> FALSE, wrote |-> TRUE]

Only(S) == CHOOSE r \in S : TRUE

syncContract(target, v, ordWf, mode, F, docs, u, cMap, cByEmail) ==
    Only({ syncWith(target, contract, names, ordWf, mode, F, docs, u) :
             contract \in {contractById(docs, target)},
             names \in {SeqMap(rowName, getDisplayItems(v, cMap, cByEmail))} })

\* fetchOrders() run inside a handler on the collection docs: the published list,
\* the collection and the number of created documents afterwards
loaderOutcome(docs, contracts, next, online, fail) ==
    LET items == loadedItems(docs, fail)
        acc0 == [db |-> docs, gen |-> <<>>, next |-> next, made |-> <<>>,
                 calls |-> <<>>]
        acc == IF fail.contracts THEN acc0
               ELSE ensureOrders(contractsByCreatedAt(contracts), items, fail, acc0)
    IN IF ~online THEN [orders |-> <<>>, db |-> docs, next |-> next]
       ELSE [orders |-> items \o acc.gen, db |-> acc.db, next |-> acc.next]

\* the reload at the end of a handler: its calls succeed, or the client is found
\* offline ("offline" in F)
reload(docs, contracts, next, F) ==
    loaderOutcome(docs, contracts, next, "offline" \notin F, NoFailure)

RECURSIVE applyTasks_mut_keepdone(_, _)
applyTasks_mut_keepdone(ts, u) ==
    IF ts = <<>> THEN [out |-> <<>>, u |-> u]
    ELSE LET t == Head(ts)
             u1 == IF t.id = Null THEN u + 1 ELSE u
             rest == applyTasks_mut_keepdone(Tail(ts), u1)
         IN [out |-> <<[t EXCEPT !.id = IF t.id = Null THEN uid(u + 1) ELSE t.id]>>
                        \o rest.out,
             u |-> rest.u]

RECURSIVE applyTasks(_, _)
applyTasks(ts, u) ==
    IF ts = <<>> THEN [out |-> <<>>, u |-> u]
    ELSE LET t == Head(ts)
             u1 == IF t.id = Null THEN u + 1 ELSE u
             rest == applyTasks(Tail(ts), u1)
         IN [out |-> <<[t EXCEPT !.id = IF t.id = Null THEN uid(u + 1) ELSE t.id,
                                 !.done = FALSE]>> \o rest.out,
             u |-> rest.u]

\* tpl.categories.map(c => ({ id: c.id || uid(), name: c.name, tasks: ... }))
RECURSIVE applyCategories(_, _)
applyCategories(cs, u) ==
    IF cs = <<>> THEN [out |-> <<>>, u |-> u]
    ELSE LET c == Head(cs)
             u1 == IF c.id = Null THEN u + 1 ELSE u
             tasks == applyTasks(c.tasks, u1)
             rest == applyCategories(Tail(cs), tasks.u)
         IN [out |-> <<Category(IF c.id = Null THEN uid(u + 1) ELSE c.id,
                                c.name, tasks.out)>> \o rest.out,
             u |-> rest.u]

NuevaTarea == <<"N", "u", "e", "v", "a", " ", "t", "a", "r", "e", "a">>
NuevaCategoria ==
    <<"N", "u", "e", "v", "a", " ", "c", "a", "t", "e", "g", "o", "r", "i'", "a">>

\* the contract part of a handler that does not reach it
noSync(docs, u) ==
    [db |-> docs, u |-> u, log |-> <<>>, failed |-> FALSE, wrote |-> FALSE]

----------------------------------------------------------------------------
(* The workflow panel: its handlers *)

\* the task positions <<category, task>> of a workflow
Positions(wf) ==
    UNION {{<<ci, ti>> : ti \in 1..Len(wf[ci].tasks)} : ci \in 1..Len(wf)}

\* the sets of failing calls a handler run may meet
FailSets(calls) == {F \in SUBSET calls : Cardinality(F) <= MaxFailures - failures}

screenVars == <<loading, runs, lastRun, madeBy, startOrders>>

\* the checkbox of a task: the staged workflow changes, the order document gets the
\* whole staged workflow, the contract gets the delivery flags
ToggleTask ==
    /\ viewing # NoOrder /\ ~wfEditMode /\ writes + edits < MaxSteps
    /\ \E p \in Positions(workflow), F \in FailSets({"order", "cread", "cwrite"}) :
         LET ci == p[1]
             ti == p[2]
             checked == ~workflow[ci].tasks[ti].done
             isVirtual == viewing.id # <<>> /\ Head(viewing.id) = "contract-"
             orderFails == ~isVirtual /\ "order" \in F
         IN \E updated \in {setTaskDone(workflow, ci, ti, checked)} :
            \E target \in {IF isVirtual
                           THEN OrStr(viewing.contractId,
                                      StripContractPrefix(viewing.id))
                           ELSE targetContractId(viewing, contractsMap,
                                                 contractsByEmail)} :
            \E sync \in {IF orderFails THEN noSync(dbContracts, uidCtr)
                         ELSE syncContract(target, viewing, updated, "merge", F,
                                           dbContracts, uidCtr, contractsMap,
                                           contractsByEmail)} :
            LET log == (IF isVirtual THEN <<>> ELSE <<"updateOrder">>) \o sync.log IN
            /\ workflow' = updated
            /\ dbOrders' = IF isVirtual \/ orderFails THEN dbOrders
                           ELSE writeOrderWorkflow(dbOrders, viewing.id, updated)
            /\ dbContracts' = sync.db
            /\ uidCtr' = sync.u
            /\ prevOp' = lastOp
            /\ lastOp' = OpRecord("toggle", viewing.id, target,
                                  orderFails \/ sync.failed, dbOrders, dbContracts,
                                  workflow, <<ci, ti, checked>>, log, F, viewing)
            /\ failures' = failures + Cardinality(F)
    /\ writes' = writes + 1
    /\ UNCHANGED <<nextDoc, orders, contractsMap, contractsByEmail, viewing,
                   wfEditMode, templates, edits, screenVars>>
    /\ UNCHANGED <<ensureVars, displayVars, adminVars, stepVars>>

\* saveWorkflow(): a failing write or read ends the handler before the reload
SaveWorkflow ==
    /\ viewing # NoOrder /\ writes + edits < MaxSteps
    /\ \E F \in FailSets({"order", "cread", "cwrite", "offline"}) :
         LET orderFails == "order" \in F IN
            \E target \in {targetContractId(viewing, contractsMap,
                                            contractsByEmail)} :
            \E dbO \in {IF orderFails THEN dbOrders
                        ELSE writeOrderWorkflow(dbOrders, viewing.id, workflow)} :
            \E sync \in {IF orderFails THEN noSync(dbContracts, uidCtr)
                         ELSE syncContract(target, viewing, workflow, "merge", F,
                                           dbContracts, uidCtr, contractsMap,
                                           contractsByEmail)} :
            \E re \in {reload(dbO, sync.db, nextDoc, F)} :
            LET reloads == ~orderFails /\ ~sync.failed
                log == <<"updateOrder">> \o sync.log
                       \o (IF reloads THEN <<"fetchOrders">> ELSE <<>>)
            IN
            /\ dbOrders' = IF reloads THEN re.db ELSE dbO
            /\ dbContracts' = sync.db
            /\ uidCtr' = sync.u
            /\ orders' = IF reloads THEN re.orders ELSE orders
            /\ nextDoc' = IF reloads THEN re.next ELSE nextDoc
            /\ prevOp' = lastOp
            /\ lastOp' = OpRecord("save", viewing.id, target,
                                  orderFails \/ sync.failed
                                    \/ (reloads /\ "offline" \in F),
                                  dbOrders, dbContracts, workflow, <<0, 0, FALSE>>, log,
                                  F, viewing)
            /\ failures' = failures + Cardinality(F)
    /\ writes' = writes + 1
    /\ loading' = FALSE
    /\ UNCHANGED <<contractsMap, contractsByEmail, viewing, workflow, wfEditMode,
                   templates, edits, runs, lastRun, madeBy, startOrders>>
    /\ UNCHANGED <<ensureVars, displayVars, adminVars, stepVars>>

\* markDeliveryPaid() and resetDeliveryPaid(): paid says which. Each write is
\* guarded on its own, so a failing one does not end the handler. The lookups are
\* loaded after the contract write and again at the end ("mapLast" when that
\* fails); the last load decides what they hold.
PaidHandler(kind, paid) ==
    /\ viewing # NoOrder /\ writes + edits < MaxSteps
    /\ \E F \in FailSets({"order", "cread", "cwrite", "offline", "mapLast"}) :
         LET status == IF paid THEN Completado ELSE Pendiente IN
            \E target \in {targetContractId(viewing, contractsMap,
                                            contractsByEmail)} :
            \E updatedLocal \in {setDeliveryDone(workflow, paid)} :
            \E dbO \in {IF "order" \in F THEN dbOrders
                        ELSE writeOrderPaid(dbOrders, viewing.id, updatedLocal, paid,
                                            status,
                                            IF paid THEN NowStamp ELSE JsNull)} :
            \E sync \in {syncContract(target, viewing, updatedLocal,
                                      IF paid THEN "done" ELSE "undone", F,
                                      dbContracts, uidCtr, contractsMap,
                                      contractsByEmail)} :
            \E re \in {reload(dbO, sync.db, nextDoc, F)} :
            LET docs == IF "mapLast" \in F THEN <<>> ELSE sync.db
                log == <<"updateOrder">> \o sync.log
                       \o (IF sync.wrote THEN <<"loadContractsMap">> ELSE <<>>)
                       \o <<"fetchOrders", "loadContractsMap">>
            IN
            /\ workflow' = updatedLocal
            /\ viewing' = [viewing EXCEPT !.depositPaid = paid,
                                          !.workflow = updatedLocal,
                                          !.status = status]
            /\ dbOrders' = re.db
            /\ dbContracts' = sync.db
            /\ uidCtr' = sync.u
            /\ orders' = re.orders
            /\ nextDoc' = re.next
            /\ contractsMap' = docs
            /\ contractsByEmail' = byEmailOf(docs)
            /\ prevOp' = lastOp
            /\ lastOp' = OpRecord(kind, viewing.id, target,
                                  "order" \in F \/ sync.failed
                                    \/ F \cap {"offline", "mapLast"} # {},
                                  dbOrders, dbContracts, workflow, <<0, 0, FALSE>>, log,
                                  F, viewing)
            /\ failures' = failures + Cardinality(F)
    /\ writes' = writes + 1
    /\ loading' = FALSE
    /\ UNCHANGED <<wfEditMode, templates, edits, runs, lastRun, madeBy, startOrders>>
    /\ UNCHANGED <<ensureVars, displayVars, adminVars, stepVars>>

\* type OrderStatus
OrderStatuses == {"pendiente", "procesando", "completado"}

\* updateStatus(id, status) on an order of the list: a failing write ends the
\* handler before the reload
UpdateStatus ==
    /\ writes + edits < MaxSteps
    /\ \E k \in 1..Len(orders), status \in OrderStatuses,
          F \in FailSets({"order", "offline"}) :
         LET id == orders[k].id
             orderFails == "order" \in F
         IN \E dbO \in {IF orderFails THEN dbOrders
                        ELSE writeOrderStatus(dbOrders, id, status)} :
            \E re \in {reload(dbO, dbContracts, nextDoc, F)} :
            /\ dbOrders' = IF orderFails THEN dbOrders ELSE re.db
            /\ orders' = IF orderFails THEN orders ELSE re.orders
            /\ nextDoc' = IF orderFails THEN nextDoc ELSE re.next
            /\ loading' = IF orderFails THEN loading ELSE FALSE
            /\ prevOp' = lastOp
            /\ lastOp' = OpRecord("status", id, <<>>, F # {}, dbOrders, dbContracts,
                                  workflow, <<0, 0, FALSE>>,
                                  IF orderFails THEN <<"updateOrder">>
                                  ELSE <<"updateOrder", "fetchOrders">>,
                                  F, viewing)
            /\ failures' = failures + Cardinality(F)
    /\ writes' = writes + 1
    /\ UNCHANGED <<dbContracts, contractsMap, contractsByEmail, viewing, workflow,
                   wfEditMode, templates, uidCtr, edits, runs, lastRun, madeBy,
                   startOrders>>
    /\ UNCHANGED <<ensureVars, displayVars, adminVars, stepVars>>

MarkDeliveryPaid == PaidHandler("mark", TRUE)

ResetDeliveryPaid == PaidHandler("reset", FALSE)

----------------------------------------------------------------------------
(* The workflow panel: the editor *)

\* names and titles typed in the editor
EditNames == {Prep, EntregasCaps}
EditTitles == {EntregarPrefix \o Foto}
EditDue == 5

\* setWorkflow(w => ...): one change of the staged workflow
Staged(wf, u) ==
    /\ workflow' = wf
    /\ uidCtr' = u
    /\ edits' = edits + 1
    /\ lastOp' = NoOp /\ prevOp' = NoOp
    /\ UNCHANGED <<dbOrders, dbContracts, nextDoc, orders, contractsMap,
                   contractsByEmail, viewing, wfEditMode, templates, writes, failures,
                   screenVars>>
    /\ UNCHANGED <<ensureVars, displayVars, adminVars, stepVars>>

Editing ==
    viewing # NoOrder /\ wfEditMode /\ edits < MaxEdits /\ writes + edits < MaxSteps

ToggleEditMode ==
    /\ viewing # NoOrder /\ writes + edits < MaxSteps
    /\ wfEditMode' = ~wfEditMode
    /\ lastOp' = NoOp /\ prevOp' = NoOp
    /\ UNCHANGED <<dbOrders, dbContracts, nextDoc, orders, contractsMap,
                   contractsByEmail, viewing, workflow, templates, uidCtr, edits,
                   writes, failures, screenVars>>
    /\ UNCHANGED <<ensureVars, displayVars, adminVars, stepVars>>

RenameCategory ==
    /\ Editing
    /\ \E ci \in 1..Len(workflow), val \in EditNames :
         /\ workflow[ci].name # val
         /\ Staged([workflow EXCEPT ![ci].name = val], uidCtr)

\* n.splice(ci, 1)
DeleteCategory ==
    /\ Editing
    /\ \E ci \in 1..Len(workflow) :
         Staged(SubSeq(workflow, 1, ci - 1) \o SubSeq(workflow, ci + 1, Len(workflow)),
                uidCtr)

RenameTask ==
    /\ Editing
    /\ \E p \in Positions(workflow), val \in EditTitles :
         /\ workflow[p[1]].tasks[p[2]].title # val
         /\ Staged([workflow EXCEPT ![p[1]].tasks[p[2]].title = val], uidCtr)

SetTaskDue ==
    /\ Editing
    /\ \E p \in Positions(workflow) :
         /\ workflow[p[1]].tasks[p[2]].due # EditDue
         /\ Staged([workflow EXCEPT ![p[1]].tasks[p[2]].due = EditDue], uidCtr)

\* n[ci].tasks.filter((_, idx) => idx !== ti)
DeleteTask ==
    /\ Editing
    /\ \E p \in Positions(workflow) :
         LET ts == workflow[p[1]].tasks
         IN Staged([workflow EXCEPT ![p[1]].tasks =
                        SubSeq(ts, 1, p[2] - 1) \o SubSeq(ts, p[2] + 1, Len(ts))],
                   uidCtr)

AddTask ==
    /\ Editing
    /\ \E ci \in 1..Len(workflow) :
         Staged([workflow EXCEPT ![ci].tasks =
                     Append(@, Task(uid(uidCtr + 1), NuevaTarea, FALSE))],
                uidCtr + 1)

AddCategory ==
    /\ Editing
    /\ Staged(Append(workflow, Category(uid(uidCtr + 1), NuevaCategoria, <<>>)),
              uidCtr + 1)

\* applyTemplateToOrder(tpl) for a template chosen in the list
ApplyTemplate ==
    /\ viewing # NoOrder /\ edits < MaxEdits /\ writes + edits < MaxSteps
    /\ \E i \in 1..Len(templates) :
         LET cloned == applyCategories(templates[i].categories, uidCtr)
         IN Staged(cloned.out, cloned.u)

----------------------------------------------------------------------------
(* The screen with its workflow panel *)

\* a workflow a contract holds from the contract screen: a preparation category
\* whose task is done and a delivery category whose task is not
ContractWorkflow ==
    <<Category(100, Prep, <<Task(101, Edit, TRUE)>>),
      Category(120, EntregasCaps,
               <<Task(112, ToLowerCase(EntregarPrefix) \o AlbumAacc, FALSE)>>)>>

\* a workflow saved on an order before
OrderWorkflow ==
    <<Category(110, EntregaDeProductos,
               <<Task(111, EntregarPrefix \o AlbumA, FALSE)>>)>>

\* collection 'contracts': c1 with one purchased item, with or without a workflow
PanelDbContracts ==
    { <<[InputContract(C1id, EmailLower, LoaderStoreLists1, Null)
            EXCEPT !.workflow = wf]>> : wf \in {<<>>, ContractWorkflow} }

\* collection 'orders': the order an earlier load created for c1, an order of c1
\* without or with a saved workflow, or an order that only shares the customer email with c1 (the load at mount then
\* creates one for c1)
PanelDbOrders ==
    { <<[orderData(InputContract(C1id, EmailLower, LoaderStoreLists1, Null))
            EXCEPT !.id = <<"n0">>]>>,
      <<StartOrder(1, <<C1id, 2>>)>>,
      <<[StartOrder(1, <<C1id, 2>>) EXCEPT !.workflow = OrderWorkflow]>>,
      <<StartOrder(1, << <<>>, 2>>)>> }

\* the screen before it mounts, over the given collections
InitPanel(orderLists, contractLists) ==
    /\ dbOrders \in orderLists
    /\ dbContracts \in contractLists
    /\ nextDoc = 0
    /\ orders = <<>> /\ loading = FALSE
    /\ contractsMap = <<>> /\ contractsByEmail = <<>>
    /\ viewing = NoOrder /\ workflow = <<>> /\ wfEditMode = FALSE
    /\ templates = <<>> /\ uidCtr = 0 /\ runs = 0
    /\ lastRun = NoRun
    /\ madeBy = [c \in ContractIds |-> [first |-> 0, later |-> 0]]
    /\ startOrders = dbOrders
    /\ IdleEditor /\ IdleEnsure /\ IdleDisplay /\ IdleAdmin /\ IdleSteps

InitWorkflow == InitPanel(PanelDbOrders, PanelDbContracts)

\* useEffect(() => { fetchOrders(); }, []): the load when the screen mounts, the
\* client online and every call of the run succeeding
FetchOrdersAtMount ==
    /\ runs = 0
    /\ LET re == loaderOutcome(dbOrders, dbContracts, nextDoc, TRUE, NoFailure)
       IN /\ orders' = re.orders
          /\ dbOrders' = re.db
          /\ nextDoc' = re.next
    /\ loading' = FALSE
    /\ runs' = runs + 1
    /\ lastOp' = NoOp /\ prevOp' = NoOp
    /\ UNCHANGED <<dbContracts, contractsMap, contractsByEmail, viewing, workflow,
                   wfEditMode, templates, uidCtr, lastRun, madeBy, startOrders,
                   edits, writes, failures>>
    /\ UNCHANGED <<ensureVars, displayVars, adminVars, stepVars>>

\* useEffect(() => { loadContractsMap(); }, []): the load of the lookups when the
\* screen mounts, finished before an order is opened; an open that finds them empty
\* loads them itself
LoadContractsMapAtMount ==
    /\ viewing = NoOrder /\ contractsMap = <<>>
    /\ LoadContractsMap

NextWorkflow ==
    \/ FetchOrdersAtMount \/ LoadContractsMapAtMount \/ OpenWorkflow
    \/ ToggleTask \/ SaveWorkflow \/ MarkDeliveryPaid \/ ResetDeliveryPaid
    \/ ToggleEditMode \/ RenameCategory \/ DeleteCategory \/ RenameTask
    \/ SetTaskDue \/ DeleteTask \/ AddTask \/ AddCategory \/ ApplyTemplate

SpecWorkflow == InitWorkflow /\ [][NextWorkflow]_vars

----------------------------------------------------------------------------
(* The handlers that write the status of an order, from every stored status *)

\* the status values the store holds: the screen's three and the loader's 'pending'
StoredStatuses == OrderStatuses \cup {"pending"}

\* collection 'orders': an order of c1, or an order that only shares the customer
\* email with c1, in each stored status
StatusDbOrders ==
    { <<[StartOrder(1, <<cid, 2>>) EXCEPT !.status = st]>> :
        cid \in {C1id, <<>>}, st \in StoredStatuses }

InitStatus ==
    InitPanel(StatusDbOrders, {<<InputContract(C1id, EmailLower, LoaderStoreLists1, Null)>>})

NextStatus ==
    \/ FetchOrdersAtMount \/ LoadContractsMapAtMount \/ OpenWorkflow
    \/ ToggleTask \/ SaveWorkflow \/ MarkDeliveryPaid \/ ResetDeliveryPaid
    \/ UpdateStatus

SpecStatus == InitStatus /\ [][NextStatus]_vars

----------------------------------------------------------------------------
(* The handlers step by step: each await is a step, in one or two sessions *)

MaxSessions == 2     \* browser sessions that have the order open
MaxCalls == 2        \* handler invocations started

\* the workflow saved on the order all sessions have open
StepWorkflow ==
    <<Category(100, Prep, <<Task(101, Edit, FALSE)>>),
      Category(110, EntregaDeProductos,
               <<Task(111, EntregarPrefix \o AlbumA, FALSE)>>)>>

StepOrder == [StartOrder(1, <<C1id, 2>>) EXCEPT !.workflow = StepWorkflow]

\* a handler invocation: its session, the handler, the database call it awaits,
\* the workflow it captured to write, the contract it targets and the item names
\* it shows (both from the state of the render it was called in), the workflow it
\* computed for the contract, the number of contract writes made before it read
\* the contract, and whether a call of it failed
NewCall(s, kind, updated, target, names) ==
    [session |-> s, kind |-> kind, pc |-> "order", updated |-> updated,
     target |-> target, names |-> names, merged |-> <<>>, seen |-> 0,
     failed |-> FALSE]

\* getDisplayItems(viewing).map(it => it.name) in session s
stepNames(s) ==
    SeqMap(rowName, getDisplayItems(sessions[s].viewing, sessions[s].contractsMap,
                                    byEmailOf(sessions[s].contractsMap)))

stepTarget(s) ==
    targetContractId(sessions[s].viewing, sessions[s].contractsMap,
                     byEmailOf(sessions[s].contractsMap))

\* the workflow a handler computes for the contract it read
mergedFor(kind, contract, names, updated, u) ==
    Only({ CASE kind \in {"toggle", "save"} -> mergeDone(ensured, updated)
             [] kind = "mark" -> setDeliveryDone(ensured, TRUE)
             [] OTHER -> setDeliveryDone(ensured, FALSE) :
           ensured \in {ensureDeliveryTasks(contract.workflow, names, u)} })

\* the call a handler awaits next: found says that a contract id was resolved
\* (after the order write) or that the contract exists (after the read). The
\* checkbox handler and saveWorkflow end at the first failing call; the payment
\* handlers guard the order write and the contract part separately
nextPc(kind, pc, fail, found) ==
    IF pc = "refresh" THEN "done"
    ELSE IF fail /\ kind \in {"toggle", "save"} THEN "done"
    ELSE IF pc = "order" /\ found THEN "read"
    ELSE IF pc = "read" /\ found /\ ~fail THEN "write"
    ELSE IF kind = "toggle" THEN "done"
    ELSE "refresh"

releaseSaving_mut_nofinally(kind, pc, fail, saving) ==
    IF pc = "done" /\ kind # "toggle" /\ ~fail THEN FALSE ELSE saving

\* finally { setSavingWf(false) } of saveWorkflow and the payment handlers
releaseSaving(kind, pc, fail, saving) ==
    IF pc = "done" /\ kind # "toggle" THEN FALSE ELSE saving

\* calls that have failed so far
stepFailures == Cardinality({c \in 1..Len(inflight) : inflight[c].failed})

\* the outcomes a database call can have now
Outcomes == IF stepFailures < MaxFailures THEN BOOLEAN ELSE {FALSE}

Sessions == 1..Len(sessions)

stepFrame ==
    UNCHANGED <<nextDoc, orders, loading, contractsMap, contractsByEmail, viewing,
                workflow, wfEditMode, templates, runs, lastRun, madeBy, startOrders,
                editorVars, ensureVars, displayVars, adminVars, loads>>

\* the state of call c and of its session after the awaited call returned
advance(c, fail, found, merged, seen) ==
    \E pc \in {nextPc(inflight[c].kind, inflight[c].pc, fail, found)} :
       /\ inflight' = [inflight EXCEPT ![c].pc = pc,
                                       ![c].failed = @ \/ fail,
                                       ![c].merged = merged,
                                       ![c].seen = seen]
       /\ sessions' = [sessions EXCEPT ![inflight[c].session].savingWf =
                          releaseSaving(inflight[c].kind, pc, fail, @)]

\* a click on the checkbox of a task: no flag guards it
StartToggle ==
    /\ Len(inflight) < MaxCalls
    /\ \E s \in Sessions, p \in Positions(sessions[1].workflow) :
         \E updated \in {setTaskDone(sessions[s].workflow, p[1], p[2],
                                     ~sessions[s].workflow[p[1]].tasks[p[2]].done)} :
            /\ sessions' = [sessions EXCEPT ![s].workflow = updated]
            /\ inflight' = Append(inflight, NewCall(s, "toggle", updated, stepTarget(s),
                                                stepNames(s)))
    /\ UNCHANGED <<dbOrders, dbContracts, uidCtr, trace>>
    /\ stepFrame

\* saveWorkflow() called: it sets the saving flag and checks none
StartSave ==
    /\ Len(inflight) < MaxCalls
    /\ \E s \in Sessions :
         /\ sessions' = [sessions EXCEPT ![s].savingWf = TRUE]
         /\ inflight' = Append(inflight,
                               NewCall(s, "save", sessions[s].workflow, stepTarget(s),
                                       stepNames(s)))
    /\ UNCHANGED <<dbOrders, dbContracts, uidCtr, trace>>
    /\ stepFrame

\* a click on 'Pagado' or 'Reiniciar': the buttons are disabled while saving
StartPaid(kind, paid) ==
    /\ Len(inflight) < MaxCalls
    /\ \E s \in Sessions :
         /\ ~sessions[s].savingWf
         /\ \E updatedLocal \in {setDeliveryDone(sessions[s].workflow, paid)} :
              /\ sessions' = [sessions EXCEPT
                     ![s].savingWf = TRUE,
                     ![s].workflow = updatedLocal,
                     ![s].viewing = [@ EXCEPT !.depositPaid = paid,
                                              !.workflow = updatedLocal,
                                              !.status = IF paid THEN Completado
                                                         ELSE Pendiente]]
              /\ inflight' = Append(inflight,
                                    NewCall(s, kind, updatedLocal, stepTarget(s),
                                            stepNames(s)))
    /\ UNCHANGED <<dbOrders, dbContracts, uidCtr, trace>>
    /\ stepFrame

StartMark == StartPaid("mark", TRUE)

StartReset == StartPaid("reset", FALSE)

\* the updateDoc of the order returns or fails
OrderWriteReturns ==
    /\ \E c \in 1..Len(inflight), fail \in Outcomes :
         /\ inflight[c].pc = "order"
         /\ \E call \in {inflight[c]} :
            \E id \in {sessions[call.session].viewing.id} :
              /\ dbOrders' =
                    IF fail THEN dbOrders
                    ELSE IF call.kind \in {"toggle", "save"}
                    THEN writeOrderWorkflow(dbOrders, id, call.updated)
                    ELSE writeOrderPaid(dbOrders, id, call.updated, call.kind = "mark",
                                        IF call.kind = "mark" THEN Completado
                                        ELSE Pendiente,
                                        IF call.kind = "mark" THEN NowStamp ELSE JsNull)
              /\ advance(c, fail, call.target # <<>>, <<>>, 0)
    /\ UNCHANGED <<dbContracts, uidCtr, trace>>
    /\ stepFrame

\* the getDoc of the contract returns or fails; the handler computes the workflow
\* it will write from what it read
ContractReadReturns ==
    /\ \E c \in 1..Len(inflight), fail \in Outcomes :
         /\ inflight[c].pc = "read"
         /\ \E call \in {inflight[c]} :
            \E contract \in {contractById(dbContracts, call.target)} :
            \E names \in {call.names} :
            \E found \in {contract # NoContract} :
            \E drawn \in {IF fail \/ ~found THEN 0
                          ELSE uidsDrawn(contract.workflow, names)} :
            \E merged \in {IF fail \/ ~found THEN <<>>
                           ELSE mergedFor(call.kind, contract, names, call.updated,
                                          uidCtr)} :
              /\ uidCtr' = uidCtr + drawn
              /\ advance(c, fail, found, merged, Len(trace))
    /\ UNCHANGED <<dbOrders, dbContracts, trace>>
    /\ stepFrame

\* the updateDoc of the contract returns or fails; trace lists the calls whose
\* write the contract received
ContractWriteReturns ==
    /\ \E c \in 1..Len(inflight), fail \in Outcomes :
         /\ inflight[c].pc = "write"
         /\ \E call \in {inflight[c]} :
              /\ dbContracts' =
                    IF fail THEN dbContracts
                    ELSE writeContract(dbContracts, call.target, call.merged,
                                       call.kind \in {"mark", "reset"},
                                       call.kind = "mark")
              /\ trace' = IF fail THEN trace ELSE Append(trace, c)
              /\ advance(c, fail, TRUE, call.merged, call.seen)
    /\ UNCHANGED <<dbOrders, uidCtr>>
    /\ stepFrame

\* the loads that end saveWorkflow and the payment handlers (loadContractsMap and
\* fetchOrders, taken together): none of them throws; the session gets the
\* contracts as they are now, or none when the load fails
RefreshReturns ==
    /\ \E c \in 1..Len(inflight), fail \in Outcomes :
         /\ inflight[c].pc = "refresh"
         /\ \E call \in {inflight[c]} :
            \E pc \in {nextPc(call.kind, call.pc, fail, TRUE)} :
              /\ inflight' = [inflight EXCEPT ![c].pc = pc, ![c].failed = @ \/ fail]
              /\ sessions' = [sessions EXCEPT
                     ![call.session].savingWf = releaseSaving(call.kind, pc, fail, @),
                     ![call.session].contractsMap =
                         IF call.kind = "save" THEN @
                         ELSE IF fail THEN <<>> ELSE dbContracts]
    /\ UNCHANGED <<dbOrders, dbContracts, uidCtr, trace>>
    /\ stepFrame

InitSteps ==
    /\ dbOrders = <<StepOrder>>
    /\ dbContracts \in
         { <<[InputContract(C1id, EmailLower, LoaderStoreLists1, Null)
                 EXCEPT !.workflow = wf]>> : wf \in {<<>>, StepWorkflow} }
    /\ sessions = [s \in 1..MaxSessions |->
                      [viewing |-> StepOrder, workflow |-> StepWorkflow,
                       savingWf |-> FALSE, contractsMap |-> dbContracts]]
    /\ inflight = <<>> /\ trace = <<>> /\ loads = <<>>
    /\ nextDoc = 0 /\ orders = <<>> /\ loading = FALSE
    /\ contractsMap = <<>> /\ contractsByEmail = <<>>
    /\ viewing = NoOrder /\ workflow = <<>> /\ wfEditMode = FALSE
    /\ templates = <<>> /\ uidCtr = 0 /\ runs = 0
    /\ lastRun = NoRun
    /\ madeBy = [c \in ContractIds |-> [first |-> 0, later |-> 0]]
    /\ startOrders = dbOrders
    /\ IdleEditor /\ IdleEnsure /\ IdleDisplay /\ IdleAdmin

Returns ==
    \/ OrderWriteReturns \/ ContractReadReturns \/ ContractWriteReturns
    \/ RefreshReturns

NextSteps == StartToggle \/ StartSave \/ StartMark \/ StartReset \/ Returns

SpecSteps == InitSteps /\ [][NextSteps]_vars

\* a getDoc of the contract is awaited: ContractReadReturns can be taken
readAwaited == \E c \in 1..Len(inflight) : inflight[c].pc = "read"

\* weak fairness of ContractReadReturns, written with its enabling condition
FairRead == ([]<>(~readAwaited)) \/ ([]<><<ContractReadReturns>>_vars)

\* every database call that is awaited returns or fails in the end
SpecStepsFair ==
    /\ SpecSteps
    /\ WF_vars(OrderWriteReturns)
    /\ FairRead
    /\ WF_vars(ContractWriteReturns)
    /\ WF_vars(RefreshReturns)

----------------------------------------------------------------------------
(* applyTemplateToOrder over templates with and without identifiers *)

\* templates of the collection: one whose category and tasks have identifiers, one
\* whose first category and two of whose tasks have none, one without categories
InputTemplates ==
    { DbTemplates[1],
      [id |-> <<"t2">>, name |-> Foto,
       categories |->
         <<Category(Null, Prep,
                    <<[Task(Null, Edit, TRUE) EXCEPT !.due = 5, !.note = Foto],
                      Task(201, EntregarPrefix \o Foto, FALSE)>>),
           Category(200, EntregaDeProductos,
                    <<Task(Null, EntregarPrefix \o AlbumA, TRUE)>>)>>],
      [id |-> <<"t3">>, name |-> Edit, categories |-> <<>>] }

\* the panel open in edit mode on an order, some workflow staged, one template
\* in the list
InitTemplate ==
    /\ dbOrders = <<StepOrder>> /\ dbContracts = <<>>
    /\ nextDoc = 0 /\ orders = dbOrders /\ loading = FALSE
    /\ contractsMap = <<>> /\ contractsByEmail = <<>>
    /\ viewing = StepOrder /\ workflow \in InputWorkflows /\ wfEditMode = TRUE
    /\ templates \in {<<t>> : t \in InputTemplates}
    /\ uidCtr = 0 /\ runs = 1
    /\ lastRun = NoRun
    /\ madeBy = [c \in ContractIds |-> [first |-> 0, later |-> 0]]
    /\ startOrders = dbOrders
    /\ IdleEditor /\ IdleEnsure /\ IdleDisplay /\ IdleAdmin /\ IdleSteps

\* applyTemplateToOrder(null): the option chosen names no template of the list
ApplyNullTemplate ==
    /\ viewing # NoOrder
    /\ lastOp' = OpRecord("template", viewing.id, <<>>, FALSE, dbOrders, dbContracts,
                          workflow, <<0, 0, FALSE>>, <<>>, {}, viewing)
    /\ prevOp' = NoOp
    /\ UNCHANGED <<dbOrders, dbContracts, nextDoc, orders, contractsMap,
                   contractsByEmail, viewing, workflow, wfEditMode, templates, uidCtr,
                   edits, writes, failures, screenVars>>
    /\ UNCHANGED <<ensureVars, displayVars, adminVars, stepVars>>

NextTemplate == ApplyTemplate \/ ApplyNullTemplate

SpecTemplate == InitTemplate /\ [][NextTemplate]_vars

----------------------------------------------------------------------------

(* The loader step by step: each awaited call of fetchOrders is a step *)

MaxLoads == 2        \* runs of the loader started

\* a run of the loader: the call it awaits, the orders it read, the contracts it
\* has still to serve, the orders it generated and the documents it created
NewLoad ==
    [pc |-> "orders", items |-> <<>>, todo |-> <<>>, gen |-> <<>>, made |-> <<>>]

\* `continue` for the contracts without purchased items or with a loaded order
RECURSIVE skipServed(_, _)
skipServed(todo, items) ==
    IF todo = <<>> THEN <<>>
    ELSE IF Len(Head(todo).storeItems) = 0 \/ existsInItems(items, Head(todo))
    THEN skipServed(Tail(todo), items)
    ELSE todo

\* the run goes on after a call returned: todo are the contracts left, gen the
\* generated orders; with none left the merged list is published
proceed(l, todo, gen, made, pc) ==
    \E left \in {skipServed(todo, loads[l].items)} :
       /\ loads' = [loads EXCEPT ![l].todo = left, ![l].gen = gen, ![l].made = made,
                                 ![l].pc = IF left = <<>> THEN "done" ELSE pc]
       /\ orders' = IF left = <<>> THEN loads[l].items \o gen ELSE orders
       /\ loading' = IF left = <<>> THEN FALSE ELSE loading

loadFrame ==
    UNCHANGED <<dbContracts, contractsMap, contractsByEmail, viewing, workflow,
                wfEditMode, templates, uidCtr, lastRun, madeBy, startOrders,
                editorVars, ensureVars, displayVars, adminVars, sessions, inflight,
                trace>>

\* fetchOrders() is called: at mount, by a handler, in this or another session
StartLoad ==
    /\ Len(loads) < MaxLoads
    /\ loads' = Append(loads, NewLoad)
    /\ loading' = TRUE
    /\ runs' = runs + 1
    /\ UNCHANGED <<dbOrders, nextDoc, orders>>
    /\ loadFrame

\* the ordered read of the orders returns
OrdersReadReturns ==
    /\ \E l \in 1..Len(loads) :
         /\ loads[l].pc = "orders"
         /\ loads' = [loads EXCEPT ![l].items = ordersByCreatedAt(dbOrders),
                                   ![l].pc = "contracts"]
    /\ UNCHANGED <<dbOrders, nextDoc, orders, loading, runs>>
    /\ loadFrame

\* the read of the contracts returns; the loop runs up to its first lookup
ContractsReadReturns ==
    /\ \E l \in 1..Len(loads) :
         /\ loads[l].pc = "contracts"
         /\ proceed(l, contractsByCreatedAt(dbContracts), <<>>, <<>>, "lookup")
    /\ UNCHANGED <<dbOrders, nextDoc, runs>>
    /\ loadFrame

\* the lookup of the order rows of a contract returns: rows are aggregated and the
\* loop goes on, no row sends the run to addDoc
LookupReturns ==
    /\ \E l \in 1..Len(loads) :
         /\ loads[l].pc = "lookup"
         /\ \E c \in {Head(loads[l].todo)} :
            \E existingOrders \in {ordersOfContract(dbOrders, c)} :
              IF Len(existingOrders) > 0
              THEN proceed(l, Tail(loads[l].todo),
                           Append(loads[l].gen, aggregatedOrder(c, existingOrders)),
                           loads[l].made, "lookup")
              ELSE /\ loads' = [loads EXCEPT ![l].pc = "add"]
                   /\ UNCHANGED <<orders, loading>>
    /\ UNCHANGED <<dbOrders, nextDoc, runs>>
    /\ loadFrame

\* addDoc returns: the order document of the contract is in the collection
AddDocReturns ==
    /\ \E l \in 1..Len(loads) :
         /\ loads[l].pc = "add"
         /\ \E c \in {Head(loads[l].todo)} :
            \E made \in {[orderData(c) EXCEPT !.id = newDocId(nextDoc + 1)]} :
              /\ dbOrders' = Append(dbOrders, made)
              /\ nextDoc' = nextDoc + 1
              /\ proceed(l, Tail(loads[l].todo), Append(loads[l].gen, made),
                         Append(loads[l].made, made), "lookup")
    /\ UNCHANGED runs
    /\ loadFrame

\* the screen before it mounts, over a database with at most one order
InitLoads ==
    InitOver({<<>>, <<StartOrder(1, << <<>>, 2>>)>>, <<StartOrder(1, <<C1id, 2>>)>>})

NextLoads ==
    \/ StartLoad \/ OrdersReadReturns \/ ContractsReadReturns \/ LookupReturns
    \/ AddDocReturns

SpecLoads == InitLoads /\ [][NextLoads]_vars

----------------------------------------------------------------------------

(* autoLinkOrders: the button 'Vincular ordenes' *)

MaxLinks == 2        \* runs of autoLinkOrders

\* the contracts of the lookup that hold a purchased item whose name, lower-cased
\* and trimmed, is one of onames, by position
sharingItems(cMap, onames) ==
    {i \in 1..Len(cMap) :
        \E j \in 1..Len(cMap[i].storeItems) :
            emailKey(cMap[i].storeItems[j].name) \in onames}

linkTarget_mut_itemsfirst(o, cMap, cByEmail) ==
    LET onames == {emailKey(itemKey(o.items[i])) : i \in 1..Len(o.items)}
        sharing == sharingItems(cMap, onames)
    IN IF sharing # {} THEN cMap[CHOOSE i \in sharing : \A j \in sharing : i <= j]
       ELSE IF o.customer_email # <<>>
       THEN LET key == emailKey(o.customer_email)
            IN IF key \in DOMAIN cByEmail THEN cByEmail[key]
               ELSE findByEmail(cMap, key)
       ELSE NoContract

\* the contract autoLinkOrders picks for order o of the list: the one of its
\* email, else the first that holds a purchased item named like an item of o
linkTarget(o, cMap, cByEmail) ==
    LET byMail == IF o.customer_email # <<>>
                  THEN LET key == emailKey(o.customer_email)
                       IN IF key \in DOMAIN cByEmail THEN cByEmail[key]
                          ELSE findByEmail(cMap, key)
                  ELSE NoContract
        onames == {emailKey(itemKey(o.items[i])) : i \in 1..Len(o.items)}
        sharing == sharingItems(cMap, onames)
    IN IF byMail # NoContract THEN byMail
       ELSE IF sharing # {} THEN cMap[CHOOSE i \in sharing : \A j \in sharing : i <= j]
       ELSE NoContract

\* the collection after the loop of autoLinkOrders over the orders of list that
\* have no contractId: updateDoc(doc(db, 'orders', o.id), { contractId: target.id })
\* for each one with a target, except the writes in F, which fail
linkedDocs(docs, list, cMap, cByEmail, F) ==
    [i \in 1..Len(docs) |->
        LET hits == {k \in 1..Len(list) :
                        /\ list[k].id = docs[i].id
                        /\ list[k].contractId = <<>>
                        /\ linkTarget(list[k], cMap, cByEmail) # NoContract}
        IN IF hits # {} /\ docs[i].id \notin F
           THEN [docs[i] EXCEPT !.contractId =
                    linkTarget(list[CHOOSE k \in hits : \A h \in hits : h <= k],
                               cMap, cByEmail).id]
           ELSE docs[i]]

\* autoLinkOrders(): the confirm dialog, the loop of writes, fetchOrders() and the
\* reload of the two lookups; a failing reload ends the handler with the lookups
\* as they were
AutoLinkOrders ==
    /\ writes < MaxLinks
    /\ \E ok \in BOOLEAN, failMap \in BOOLEAN,
          F \in {{}} \cup {{orders[k].id} : k \in 1..Len(orders)} :
         IF ~ok
         THEN /\ F = {} /\ ~failMap
              /\ lastOp' = OpRecord("linkDeclined", <<>>, <<>>, FALSE, dbOrders,
                                    dbContracts, workflow, <<0, 0, FALSE>>, <<>>,
                                    {}, viewing)
              /\ UNCHANGED <<dbOrders, orders, nextDoc, loading, contractsMap,
                             contractsByEmail>>
         ELSE \E dbO \in {linkedDocs(dbOrders, orders, contractsMap,
                                     contractsByEmail, F)} :
              \E re \in {loaderOutcome(dbO, dbContracts, nextDoc, TRUE, NoFailure)} :
              /\ dbOrders' = re.db
              /\ orders' = re.orders
              /\ nextDoc' = re.next
              /\ loading' = FALSE
              /\ contractsMap' = IF failMap THEN contractsMap ELSE dbContracts
              /\ contractsByEmail' = IF failMap THEN contractsByEmail
                                     ELSE byEmailOf(dbContracts)
              /\ lastOp' = OpRecord("link", <<>>, <<>>, F # {} \/ failMap, dbOrders,
                                    dbContracts, workflow, <<0, 0, FALSE>>,
                                    <<"fetchOrders", "getContracts">>, F, viewing)
    /\ prevOp' = lastOp
    /\ writes' = writes + 1
    /\ UNCHANGED <<dbContracts, viewing, workflow, wfEditMode, templates, uidCtr,
                   runs, lastRun, madeBy, startOrders, edits, failures>>
    /\ UNCHANGED <<ensureVars, displayVars, adminVars, stepVars>>

\* an order document at the start: its link, its customer email and its one item
LinkOrderShapes ==
    { [cid |-> <<>>, email |-> EmailUpper, item |-> Item(Foto, <<>>, 1, Null, 30, Null)],
      [cid |-> <<>>, email |-> <<>>, item |-> Item(<<>>, albuma, 1, Null, 50, Null)],
      [cid |-> <<>>, email |-> <<>>, item |-> Item(AlbumAacc, <<>>, 1, Null, 50, Null)],
      [cid |-> <<>>, email |-> <<"z", "@", "x">>, item |-> Item(Foto, <<>>, 1, Null, 30, Null)],
      [cid |-> C2id, email |-> EmailUpper, item |-> Item(Foto, <<>>, 1, Null, 30, Null)] }

LinkDbOrders ==
    {[k \in 1..Len(shapes) |->
         InputOrder(<<"o", newDocId(k)[1]>>, shapes[k].cid, shapes[k].email,
                    <<shapes[k].item>>)] :
        shapes \in BoundedSeq(LinkOrderShapes, 2)}

\* collection 'contracts': c1 ('Album A', email a@x), alone or with c2 ('Foto')
LinkDbContracts ==
    { <<InputContract(C1id, EmailLower, LoaderStoreLists1, Null)>>,
      <<InputContract(C1id, EmailLower, LoaderStoreLists1, Null), C2doc>> }

InitLink == InitPanel(LinkDbOrders, LinkDbContracts)

NextLink == FetchOrdersAtMount \/ LoadContractsMapAtMount \/ AutoLinkOrders

SpecLink == InitLink /\ [][NextLink]_vars

----------------------------------------------------------------------------

(* The loader run again after a handler that saved a workflow *)

\* fetchOrders() once more after the checkbox handler or saveWorkflow ended: at the
\* next mount of the screen or at the end of a later handler; every call succeeds
FetchOrdersAgain ==
    /\ runs = 1
    /\ lastOp.kind \in {"toggle", "save"}
    /\ \E re \in {loaderOutcome(dbOrders, dbContracts, nextDoc, TRUE, NoFailure)} :
          /\ orders' = re.orders
          /\ dbOrders' = re.db
          /\ nextDoc' = re.next
    /\ loading' = FALSE
    /\ runs' = runs + 1
    /\ UNCHANGED <<dbContracts, contractsMap, contractsByEmail, viewing, workflow,
                   wfEditMode, templates, uidCtr, lastRun, madeBy, startOrders,
                   editorVars>>
    /\ UNCHANGED <<ensureVars, displayVars, adminVars, stepVars>>

NextReload ==
    \/ FetchOrdersAtMount \/ LoadContractsMapAtMount \/ OpenWorkflow
    \/ ToggleTask \/ SaveWorkflow \/ FetchOrdersAgain

SpecReload == InitWorkflow /\ [][NextReload]_vars

----------------------------------------------------------------------------

(* ensureDeliveryTasks applied once and again *)

InitEnsure ==
    /\ edW \in InputWorkflows /\ edN \in InputNameLists
    /\ edOut = <<>> /\ edOut2 = <<>> /\ edPc = "start"
    /\ uidCtr = 0 /\ contractsMap = <<>> /\ contractsByEmail = <<>>
    /\ IdleScreen /\ IdleDisplay /\ IdleAdmin /\ IdleSteps

CallEnsure ==
    /\ edPc = "start"
    /\ edOut' = ensureDeliveryTasks(edW, edN, uidCtr)
    /\ uidCtr' = uidCtr + uidsDrawn(edW, edN)
    /\ edPc' = "once"
    /\ UNCHANGED <<edW, edN, edOut2, displayVars, adminVars, stepVars>>
    /\ UNCHANGED <<dbOrders, dbContracts, nextDoc, orders, loading, contractsMap,
                   contractsByEmail, viewing, workflow, wfEditMode, templates, runs,
                   lastRun, madeBy, startOrders, editorVars>>

CallEnsureAgain ==
    /\ edPc = "once"
    /\ edOut2' = ensureDeliveryTasks(edOut, edN, uidCtr)
    /\ uidCtr' = uidCtr + uidsDrawn(edOut, edN)
    /\ edPc' = "twice"
    /\ UNCHANGED <<edW, edN, edOut, displayVars, adminVars, stepVars>>
    /\ UNCHANGED <<dbOrders, dbContracts, nextDoc, orders, loading, contractsMap,
                   contractsByEmail, viewing, workflow, wfEditMode, templates, runs,
                   lastRun, madeBy, startOrders, editorVars>>

NextEnsure == CallEnsure \/ CallEnsureAgain

SpecEnsure == InitEnsure /\ [][NextEnsure]_vars

----------------------------------------------------------------------------
(* getDisplayItems applied to an order under the current lookups *)

InitDisplay ==
    /\ \E case \in InputDisplayCases :
         /\ gdOrder = case.order
         /\ contractsMap = case.map
         /\ contractsByEmail = byEmailOf(case.map)
    /\ gdOut = <<>> /\ gdPc = "start"
    /\ uidCtr = 0
    /\ IdleScreen /\ IdleEnsure /\ IdleAdmin /\ IdleSteps

CallGetDisplayItems ==
    /\ gdPc = "start"
    /\ gdOut' = getDisplayItems(gdOrder, contractsMap, contractsByEmail)
    /\ gdPc' = "done"
    /\ UNCHANGED <<gdOrder, loaderVars, editorVars, ensureVars, adminVars, stepVars>>

NextDisplay == CallGetDisplayItems

SpecDisplay == InitDisplay /\ [][NextDisplay]_vars

----------------------------------------------------------------------------
(* The header: admin mode and its sign-in modal *)

MaxSubmits == 2      \* runs of submitAdminModal

\* the messages submitAdminModal sets (accents left out)
AdminMsg ==
    [missing |-> <<"Insira email e senha">>,
     offline |-> <<"Sem conexao de rede. Verifique sua internet e tente novamente.">>,
     network |-> <<"Falha de rede ao tentar autenticar. Tente novamente mais tarde.">>,
     credentials |-> <<"Email ou senha incorretos.">>,
     invalidEmail |-> <<"Email invalido.">>,
     rateLimit |-> <<"Muitas tentativas falharam. Tente novamente mais tarde.">>]

\* what is typed into the fields of the modal
AdminEmails == {<<>>, <<" ">>, EmailUpper}
AdminPasswords == {<<>>, <<"p">>}

\* the errors signInWithEmailAndPassword throws: its code ('' when the error has
\* none) and whether its message holds the word 'network'
AuthErrors ==
    { [code |-> "auth/network-request-failed", net |-> TRUE],
      [code |-> "auth/user-not-found", net |-> FALSE],
      [code |-> "auth/wrong-password", net |-> FALSE],
      [code |-> "auth/invalid-email", net |-> FALSE],
      [code |-> "auth/too-many-requests", net |-> FALSE],
      [code |-> "auth/invalid-credential", net |-> FALSE],
      [code |-> "", net |-> TRUE],
      [code |-> "", net |-> FALSE] }

\* e?.message || String(e) || 'Erro ao autenticar'
authMessage(e) ==
    IF e.code # "" THEN <<"Firebase: Error (", e.code, ").">>
    ELSE IF e.net THEN <<"Network Error">>
    ELSE <<"Erro ao autenticar">>

adminErrorFor_mut_generic(e) == AdminMsg.network

\* the message the catch of submitAdminModal sets for error e
adminErrorFor(e) ==
    IF e.code = "auth/network-request-failed" \/ e.net THEN AdminMsg.network
    ELSE IF e.code \in {"auth/user-not-found", "auth/wrong-password"} THEN AdminMsg.credentials
    ELSE IF e.code = "auth/invalid-email" THEN AdminMsg.invalidEmail
    ELSE IF e.code = "auth/too-many-requests" THEN AdminMsg.rateLimit
    ELSE <<"Falha ao autenticar: ">> \o authMessage(e)

\* toggleAdminFromHeader(): opens the modal, or leaves admin mode through
\* notifyAdminChange(false)
ToggleAdminFromHeader ==
    /\ IF ~isAdmin
       THEN /\ adminEmail' = <<>> /\ adminPassword' = <<>> /\ adminModalError' = <<>>
            /\ showAdminModal' = TRUE
            /\ UNCHANGED <<isAdmin, siteAdminMode, adminEvents>>
       ELSE /\ Len(adminEvents) < 2 * MaxSubmits
            /\ \E stored \in BOOLEAN :
                 siteAdminMode' = IF stored THEN FALSE ELSE siteAdminMode
            /\ adminEvents' = Append(adminEvents, FALSE)
            /\ isAdmin' = FALSE
            /\ UNCHANGED <<adminEmail, adminPassword, adminModalError, showAdminModal>>
    /\ lastSubmit' = NoSubmit
    /\ UNCHANGED <<path, submits>>
    /\ UNCHANGED <<loaderVars, editorVars, ensureVars, displayVars, stepVars>>

\* the onChange of the email field
TypeAdminEmail ==
    /\ showAdminModal
    /\ \E e \in AdminEmails : adminEmail' = e
    /\ lastSubmit' = NoSubmit
    /\ UNCHANGED <<isAdmin, showAdminModal, adminPassword, adminModalError,
                   siteAdminMode, adminEvents, path, submits>>
    /\ UNCHANGED <<loaderVars, editorVars, ensureVars, displayVars, stepVars>>

\* the onChange of the password field
TypeAdminPassword ==
    /\ showAdminModal
    /\ \E pw \in AdminPasswords : adminPassword' = pw
    /\ lastSubmit' = NoSubmit
    /\ UNCHANGED <<isAdmin, showAdminModal, adminEmail, adminModalError,
                   siteAdminMode, adminEvents, path, submits>>
    /\ UNCHANGED <<loaderVars, editorVars, ensureVars, displayVars, stepVars>>

\* the button 'Cancelar'
CancelAdminModal ==
    /\ showAdminModal
    /\ showAdminModal' = FALSE
    /\ adminEmail' = <<>> /\ adminPassword' = <<>> /\ adminModalError' = <<>>
    /\ lastSubmit' = NoSubmit
    /\ UNCHANGED <<isAdmin, siteAdminMode, adminEvents, path, submits>>
    /\ UNCHANGED <<loaderVars, editorVars, ensureVars, displayVars, stepVars>>

\* submitAdminModal(): one whole run. The auth service signs nobody in under an
\* empty email; localStorage.setItem may throw, which notifyAdminChange swallows.
SubmitAdminModal ==
    /\ showAdminModal /\ submits < MaxSubmits
    /\ \E online \in BOOLEAN, signedIn \in BOOLEAN, e \in AuthErrors, stored \in BOOLEAN :
         LET missing == adminEmail = <<>> \/ adminPassword = <<>>
             called == ~missing /\ online
             rec == [ran |-> TRUE, email |-> adminEmail, password |-> adminPassword,
                     online |-> online,
                     signIn |-> IF ~called THEN "none"
                                ELSE IF signedIn THEN "ok" ELSE "error",
                     code |-> IF called /\ ~signedIn THEN e.code ELSE "",
                     net |-> IF called /\ ~signedIn THEN e.net ELSE FALSE,
                     wasAdmin |-> isAdmin, wasStored |-> siteAdminMode,
                     wasPath |-> path, events |-> Len(adminEvents)]
         IN /\ (signedIn => Trim(adminEmail) # <<>>)
            /\ lastSubmit' = rec
            /\ IF missing
               THEN /\ adminModalError' = AdminMsg.missing
                    /\ UNCHANGED <<isAdmin, showAdminModal, adminEmail, adminPassword,
                                   siteAdminMode, adminEvents, path>>
               ELSE IF ~online
               THEN /\ adminModalError' = AdminMsg.offline
                    /\ UNCHANGED <<isAdmin, showAdminModal, adminEmail, adminPassword,
                                   siteAdminMode, adminEvents, path>>
               ELSE IF ~signedIn
               THEN /\ adminModalError' = adminErrorFor(e)
                    /\ UNCHANGED <<isAdmin, showAdminModal, adminEmail, adminPassword,
                                   siteAdminMode, adminEvents, path>>
               ELSE /\ siteAdminMode' = IF stored THEN TRUE ELSE siteAdminMode
                    /\ adminEvents' = Append(adminEvents, TRUE)
                    /\ isAdmin' = TRUE
                    /\ showAdminModal' = FALSE
                    /\ adminEmail' = <<>> /\ adminPassword' = <<>>
                    /\ adminModalError' = <<>>
                    /\ path' = "/admin-store"
    /\ submits' = submits + 1
    /\ UNCHANGED <<loaderVars, editorVars, ensureVars, displayVars, stepVars>>

InitAdmin ==
    /\ isAdmin = FALSE /\ showAdminModal = FALSE
    /\ adminEmail = <<>> /\ adminPassword = <<>> /\ adminModalError = <<>>
    /\ siteAdminMode = FALSE /\ adminEvents = <<>> /\ path = "/"
    /\ lastSubmit = NoSubmit /\ submits = 0
    /\ uidCtr = 0 /\ contractsMap = <<>> /\ contractsByEmail = <<>>
    /\ IdleScreen /\ IdleEnsure /\ IdleDisplay /\ IdleSteps

NextAdmin ==
    \/ ToggleAdminFromHeader \/ TypeAdminEmail \/ TypeAdminPassword
    \/ CancelAdminModal \/ SubmitAdminModal

SpecAdmin == InitAdmin /\ [][NextAdmin]_vars

----------------------------------------------------------------------------
(* Properties of the loader *)

\* some order of docs references contract id c (its contractId, prefix stripped)
hasOrderFor(docs, c) ==
    \E i \in 1..Len(docs) :
        docs[i].contractId # <<>> /\ StripContractPrefix(docs[i].contractId) = c

ordersFor(docs, c) ==
    {i \in 1..Len(docs) :
        docs[i].contractId # <<>> /\ StripContractPrefix(docs[i].contractId) = c}

cleanRun == runs > 0 /\ lastRun.online /\ ~lastRun.failed

\* C1: for a contract with purchased items that had no order at the start and got
\* its order in the first loader run, no later loader run creates another order:
\* the collection holds exactly one order document with that contractId.
C1_LaterRunsCreateNoSecondOrder ==
    \A i \in 1..Len(dbContracts) :
        LET c == dbContracts[i]
        IN (/\ Len(c.storeItems) > 0
            /\ ~hasOrderFor(startOrders, c.id)
            /\ madeBy[c.id].first = 1)
           => (madeBy[c.id].later = 0 /\ madeFor(dbOrders, c.id) = 1)

\* C2: after an online loader run in which no step failed, every contract with at
\* least one purchased item has exactly one corresponding order in the in-memory
\* order list, whatever the database held before.
C2_ExactlyOneOrderPerContract ==
    cleanRun =>
        \A i \in 1..Len(dbContracts) :
            Len(dbContracts[i].storeItems) > 0
                => Cardinality(ordersFor(orders, dbContracts[i].id)) = 1

\* the total of a purchased item as the contract states it
statedItemTotal(si) ==
    IF si.total # Null THEN si.total
    ELSE Coalesce(si.price, 0) * Coalesce(si.quantity, Coalesce(si.qty, 1))

RECURSIVE statedTotal(_)
statedTotal(storeItems) ==
    IF storeItems = <<>> THEN 0
    ELSE statedItemTotal(Head(storeItems)) + statedTotal(Tail(storeItems))

inList(d, docs) == \E i \in 1..Len(docs) : docs[i] = d

\* C3: a contract with purchased items and no order at all gets one order from a
\* clean loader run; every order the loader creates has status 'pending' and a
\* total of the sum of the item totals (precomputed total, else price x quantity)
\* plus the travel fee, and is stored and added to the in-memory list.
C3_CreatedOrderPendingWithTotal ==
    /\ \A k \in 1..Len(lastRun.made) :
         LET d == lastRun.made[k]
             c == contractById(dbContracts, d.contractId)
         IN /\ d.status = "pending"
            /\ d.totalAmount = statedTotal(c.storeItems) + Coalesce(c.travelFee, 0)
            /\ inList(d, dbOrders) /\ inList(d, orders)
    /\ cleanRun =>
         \A i \in 1..Len(dbContracts) :
            LET c == dbContracts[i]
            IN (Len(c.storeItems) > 0 /\ ~hasOrderFor(lastRun.before, c.id))
                  => madeFor(lastRun.made, c.id) = 1

\* C3 witness: the order created for [{Album A, quantity 2, price 100}] without a
\* travel fee has total 200
C3_Witness ==
    \E k \in 1..Len(lastRun.made) :
        LET d == lastRun.made[k]
            c == contractById(dbContracts, d.contractId)
        IN /\ c.storeItems = LoaderStoreLists1 /\ c.travelFee = Null
           /\ d.totalAmount = 200 /\ d.status = "pending"

\* C3 witness with a travel fee and a precomputed item total: 200 + 90 + 30
C3_WitnessFee ==
    \E k \in 1..Len(lastRun.made) : lastRun.made[k].totalAmount = 320

\* C25: a loader run that finds the client offline publishes the empty list,
\* issues no database call, creates no order and leaves the loading flag false
C25_OfflineLoadIsEmpty ==
    (runs > 0 /\ ~lastRun.online) =>
        /\ orders = <<>>
        /\ lastRun.calls = <<>>
        /\ lastRun.made = <<>>
        /\ dbOrders = lastRun.before
        /\ loading = FALSE

\* an offline run over a database that holds an order and a contract still to serve
C25_Witness ==
    /\ runs > 0 /\ ~lastRun.online
    /\ lastRun.before # <<>>
    /\ \E i \in 1..Len(dbContracts) :
         /\ Len(dbContracts[i].storeItems) > 0
         /\ ~existsInItems(dbOrders, dbContracts[i])

\* the order documents the reads of a run that succeeded returned
readOrders(before, fail) ==
    IF ~fail.ordered THEN SelectSeq(before, has_created_at)
    ELSE IF ~fail.fallback THEN before
    ELSE <<>>

listed(list, id) == \E k \in 1..Len(list) : list[k].id = id

\* C26: whichever database calls of an online run fail, the run ends with the
\* loading flag false and publishes every order a successful read returned; when
\* the contracts were read, every contract with purchased items whose order
\* creation did not fail has a row; when they were not, the list is the orders read
C26_FailedStepIsNoData ==
    (runs > 0 /\ lastRun.online) =>
        LET read == readOrders(lastRun.before, lastRun.fail)
        IN /\ loading = FALSE
           /\ \A i \in 1..Len(read) : listed(orders, read[i].id)
           /\ lastRun.fail.contracts =>
                /\ Len(orders) = Len(read)
                /\ lastRun.made = <<>>
           /\ ~lastRun.fail.contracts =>
                \A i \in 1..Len(dbContracts) :
                    ( /\ has_createdAt(dbContracts[i])
                      /\ Len(dbContracts[i].storeItems) > 0
                      /\ dbContracts[i].id \notin lastRun.fail.add )
                    => existsInItems(orders, dbContracts[i])

\* the ordered read failed, the fallback returned an order, and the creation of
\* one contract's order failed while another contract's order was created
C26_Witness ==
    /\ runs > 0 /\ lastRun.online
    /\ lastRun.fail.ordered /\ ~lastRun.fail.fallback
    /\ lastRun.before # <<>>
    /\ lastRun.fail.products
    /\ lastRun.fail.add # {}
    /\ lastRun.made # <<>>

\* workflow wf has a delivery category holding, for each purchased item of c,
\* one not-done task titled 'Entregar {name}' (up to case and diacritics)
deliveryTasksFor(wf, c) ==
    \E ci \in 1..Len(wf) :
        /\ isDelivery(wf[ci])
        /\ \A si \in 1..Len(c.storeItems) :
             LET ts == {t \in 1..Len(wf[ci].tasks) :
                           normalize(wf[ci].tasks[t].title)
                               = normalize(EntregarPrefix \o c.storeItems[si].name)}
             IN Cardinality(ts) = 1 /\ \A t \in ts : ~wf[ci].tasks[t].done

\* C4 (as stated): every order the loader creates from a contract carries a
\* workflow whose delivery category holds one not-done task 'Entregar {name}' per
\* purchased item of the contract.
C4_CreatedOrderCarriesDeliveryTasks ==
    \A k \in 1..Len(lastRun.made) :
        deliveryTasksFor(lastRun.made[k].workflow,
                         contractById(dbContracts, lastRun.made[k].contractId))

\* C4 (amended): an order the loader creates carries no workflow; when that order
\* is opened, the staged workflow has a delivery category holding one not-done
\* task 'Entregar {name}' per purchased item of the contract.
C4_DeliveryTasksStagedOnOpen ==
    /\ \A k \in 1..Len(lastRun.made) : lastRun.made[k].workflow = <<>>
    /\ (viewing # NoOrder /\ inList(viewing, lastRun.made))
          => deliveryTasksFor(workflow, contractById(dbContracts, viewing.contractId))

\* C4 witness: a created order is open and its staged delivery category has the
\* task 'Entregar Album A', not done
C4_Witness ==
    /\ viewing # NoOrder /\ inList(viewing, lastRun.made)
    /\ \E ci \in 1..Len(workflow) :
         /\ isDelivery(workflow[ci])
         /\ \E t \in 1..Len(workflow[ci].tasks) :
              /\ workflow[ci].tasks[t].title = EntregarPrefix \o AlbumA
              /\ ~workflow[ci].tasks[t].done

----------------------------------------------------------------------------
(* Properties of ensureDeliveryTasks *)

\* C5: ensureDeliveryTasks is idempotent: applied again to its own result with the
\* same product names it returns that result unchanged (categories, tasks,
\* identifiers and done flags).
C5_EnsureIdempotent == edPc = "twice" => edOut2 = edOut

\* C5 witness: the first call added a delivery category or task, the second ran
C5_Witness == edPc = "twice" /\ edOut # edW /\ Len(edN) = MaxNames

----------------------------------------------------------------------------
(* Properties of getDisplayItems *)

\* the contract the input order resolves to under the current lookups
gdContract == resolveContract(gdOrder, contractsMap, contractsByEmail)

\* the loaded contracts whose id is the order's explicit contract id
gdIdHits ==
    {i \in 1..Len(contractsMap) :
        gdOrder.contractId # <<>> /\ contractsMap[i].id = gdOrder.contractId}

\* the loaded contracts whose client email equals the order's customer email,
\* both lower-cased and trimmed
gdMailHits ==
    {i \in 1..Len(contractsMap) :
        /\ gdOrder.customer_email # <<>>
        /\ emailKey(contractsMap[i].clientEmail) = emailKey(gdOrder.customer_email)}

\* C30: getDisplayItems resolves the order's contract to the loaded contract that
\* has the order's explicit contract id; when no loaded contract has it (or the
\* order has none), to a loaded contract whose normalised client email equals
\* the order's normalised customer email; and to none when neither exists
C30_ResolvesByIdElseEmail ==
    gdPc = "done" =>
        /\ gdIdHits # {} => \E i \in gdIdHits : gdContract = contractsMap[i]
        /\ (gdIdHits = {} /\ gdMailHits # {}) =>
               \E i \in gdMailHits : gdContract = contractsMap[i]
        /\ (gdIdHits = {} /\ gdMailHits = {}) => gdContract = NoContract

\* the order names a contract that is not loaded and is resolved by its email
C30_Witness ==
    /\ gdPc = "done"
    /\ gdOrder.contractId # <<>> /\ gdIdHits = {} /\ gdMailHits # {}
    /\ gdContract.id = C1id
    /\ Len(gdOut) > 0

\* the order's id and its email point at different contracts: the id decides
C30_WitnessIdFirst ==
    /\ gdPc = "done"
    /\ gdIdHits # {} /\ gdMailHits # {} /\ gdIdHits \cap gdMailHits = {}
    /\ gdContract.id = C2id

gdReconciled == gdPc = "done" /\ gdContract # NoContract /\ Len(gdContract.storeItems) > 0

\* rows of the result whose name is n up to case, diacritics and blanks
rowsNamed(n) == {k \in 1..Len(gdOut) : normalize(gdOut[k].name) = normalize(n)}

\* purchased items of the resolved contract named n up to case, diacritics, blanks
storeItemsNamed(n) ==
    {i \in 1..Len(gdContract.storeItems) :
        normalize(gdContract.storeItems[i].name) = normalize(n)}

\* order items that match no purchased item of the resolved contract
unmatchedItems ==
    {i \in 1..Len(gdOrder.items) :
        storeItemsNamed(OrStr(gdOrder.items[i].name, gdOrder.items[i].product_id)) = {}}

\* the first order item that matches purchased item ci by normalised name, else 0
firstMatch(ci) ==
    LET ms == {i \in 1..Len(gdOrder.items) :
                  normalize(OrStr(gdOrder.items[i].name, gdOrder.items[i].product_id))
                      = normalize(ci.name)}
    IN IF ms = {} THEN 0 ELSE CHOOSE i \in ms : \A j \in ms : i <= j

\* an order item shown with its own values: quantity (default 1), price
\* (default 0), total (price x quantity when absent)
ownRow(oi) ==
    LET q == IF oi.qty # Null THEN oi.qty
             ELSE IF oi.quantity # Null THEN oi.quantity ELSE 1
        p == IF oi.price # Null THEN oi.price ELSE 0
    IN [name |-> OrStr(oi.name, oi.product_id), qty |-> q, price |-> p,
        total |-> IF oi.total # Null THEN oi.total ELSE p * q]

\* C6 (as stated): when the resolved contract has purchased items, each contract
\* item name appears exactly once in the reconciled list, comparing names up to
\* case and diacritics.
C6_EachContractNameOnce ==
    gdReconciled =>
        \A i \in 1..Len(gdContract.storeItems) :
            Cardinality(rowsNamed(gdContract.storeItems[i].name)) = 1

\* C6 (amended): each purchased item of the resolved contract yields exactly one
\* row: a contract item name appears as many times as the contract holds items of
\* that name (up to case and diacritics), so exactly once when the contract's item
\* names are distinct, whatever the spelling on the order side.
C6_OneRowPerContractItem ==
    gdReconciled =>
        \A i \in 1..Len(gdContract.storeItems) :
            Cardinality(rowsNamed(gdContract.storeItems[i].name))
                = Cardinality(storeItemsNamed(gdContract.storeItems[i].name))

\* C6 witness: the order spells a contract item name differently, twice, and the
\* name is shown once
C6_Witness ==
    /\ gdReconciled
    /\ Len(gdContract.storeItems) = 2
    /\ Cardinality(storeItemsNamed(AlbumA)) = 1
    /\ Cardinality({i \in 1..Len(gdOrder.items) :
                       normalize(gdOrder.items[i].name) = normalize(AlbumA)
                       /\ gdOrder.items[i].name # AlbumA}) = 2
    /\ Cardinality(rowsNamed(AlbumA)) = 1

\* C7: every order item whose normalised name matches no item of the resolved
\* contract is in the result as a row with its own quantity, price and total
\* (total = price x quantity when absent): as many such rows as such items.
C7_ExtrasSurvive ==
    gdReconciled =>
        \A i \in unmatchedItems :
            Cardinality({k \in 1..Len(gdOut) : gdOut[k] = ownRow(gdOrder.items[i])})
                >= Cardinality({j \in unmatchedItems :
                                   ownRow(gdOrder.items[j]) = ownRow(gdOrder.items[i])})

\* C7 witness: two extras beside a reconciled contract item
C7_Witness ==
    /\ gdReconciled
    /\ Cardinality(unmatchedItems) = 2
    /\ Len(gdOut) = Len(gdContract.storeItems) + 2

\* C8: the row of a purchased item that an order item matches by normalised name
\* takes the quantity, price and total the order item holds (total = price x
\* quantity when it holds none); the row of an unmatched purchased item takes the
\* contract item's quantity, price and total.
C8_OrderValuesWinOnMatch ==
    gdReconciled =>
        \A k \in 1..Len(gdContract.storeItems) :
            LET ci == gdContract.storeItems[k]
                m == firstMatch(ci)
                row == gdOut[k]
                cq == IF ci.quantity # Null THEN ci.quantity
                      ELSE IF ci.qty # Null THEN ci.qty ELSE 1
                cp == IF ci.price # Null THEN ci.price ELSE 0
            IN IF m # 0
               THEN LET oi == gdOrder.items[m]
                    IN /\ oi.qty # Null => row.qty = oi.qty
                       /\ (oi.qty = Null /\ oi.quantity # Null) => row.qty = oi.quantity
                       /\ oi.price # Null => row.price = oi.price
                       /\ oi.total # Null => row.total = oi.total
                       /\ oi.total = Null => row.total = row.price * row.qty
               ELSE /\ row.qty = cq /\ row.price = cp
                    /\ row.total = IF ci.total # Null THEN ci.total ELSE cp * cq

\* C8 witness: order item {album a, qty 2, price 50} against contract item
\* {Album A, quantity 2, price 100}: the reconciled price is 50
C8_Witness ==
    /\ gdReconciled
    /\ gdContract.storeItems[1] = Item(AlbumA, <<>>, Null, 2, 100, Null)
    /\ firstMatch(gdContract.storeItems[1]) # 0
    /\ gdOrder.items[firstMatch(gdContract.storeItems[1])]
           = Item(albuma, <<>>, 2, Null, 50, Null)
    /\ gdOut[1].price = 50 /\ gdOut[1].total = 100

\* C8 witness: a purchased item no order item matches is shown with the
\* contract's values
C8_WitnessFallback ==
    /\ gdReconciled
    /\ Len(gdOrder.items) > 0
    /\ firstMatch(gdContract.storeItems[1]) = 0
    /\ gdOut[1].price = gdContract.storeItems[1].price

\* C9 (as stated): a row that comes from a name match is labelled with the
\* contract item's name, not with the spelling stored on the order item.
C9_MatchedRowHasContractName ==
    gdReconciled =>
        \A k \in 1..Len(gdContract.storeItems) :
            firstMatch(gdContract.storeItems[k]) # 0
                => gdOut[k].name = gdContract.storeItems[k].name

\* C9 (amended): a row that comes from a name match is labelled with the name
\* stored on the matching order item, and with the contract item's name only when
\* that order item has no name (it matched by product id); a purchased item that
\* nothing matches keeps the contract's name.
C9_MatchedRowHasOrderName ==
    gdReconciled =>
        \A k \in 1..Len(gdContract.storeItems) :
            LET ci == gdContract.storeItems[k]
                m == firstMatch(ci)
            IN gdOut[k].name = IF m # 0 /\ gdOrder.items[m].name # <<>>
                               THEN gdOrder.items[m].name
                               ELSE ci.name

\* C9 witness: order item 'album a' against contract item 'Album A' gives one row,
\* named 'album a'
C9_Witness ==
    /\ gdReconciled
    /\ Len(gdContract.storeItems) = 1 /\ gdContract.storeItems[1].name = AlbumA
    /\ Len(gdOrder.items) = 1 /\ gdOrder.items[1].name = albuma
    /\ Len(gdOut) = 1 /\ gdOut[1].name = albuma

\* C10: when no contract resolves, or the resolved contract has no purchased
\* items, the result is the order's own items, one row per item in the same order,
\* with quantity (default 1), price (default 0) and total (price x quantity when
\* absent).
C10_OwnItemsWithoutContract ==
    (gdPc = "done" /\ ~gdReconciled) =>
        /\ Len(gdOut) = Len(gdOrder.items)
        /\ \A i \in 1..Len(gdOrder.items) : gdOut[i] = ownRow(gdOrder.items[i])

\* C10 witness: a resolved contract without purchased items, two order items
C10_Witness ==
    /\ gdPc = "done" /\ gdContract # NoContract /\ Len(gdContract.storeItems) = 0
    /\ Len(gdOrder.items) = 2 /\ Len(gdOut) = 2
    /\ gdOrder.items[1].qty = Null /\ gdOrder.items[1].quantity = Null

\* C10 witness: no contract resolves
C10_WitnessNoContract ==
    /\ gdPc = "done" /\ gdContract = NoContract
    /\ Len(gdOrder.items) = 2 /\ Len(gdOut) = 2


----------------------------------------------------------------------------
(* Properties of the workflow panel *)

\* the document of docs named id
docOf(docs, id) == docs[CHOOSE i \in 1..Len(docs) : docs[i].id = id]

hasDoc(docs, id) == \E i \in 1..Len(docs) : docs[i].id = id

\* the status a stored value stands for, in either vocabulary of the store
statusOf(s) ==
    CASE s \in {"pendiente", "pending"} -> "pending"
      [] s \in {"procesando", "processing"} -> "processing"
      [] s \in {"completado", "completed"} -> "completed"
      [] OTHER -> "unknown"

\* the tasks of the categories of wf whose name contains 'entrega'
deliveryTasks(wf) ==
    UNION {{wf[i].tasks[j] : j \in 1..Len(wf[i].tasks)} :
              i \in {k \in 1..Len(wf) : isDelivery(wf[k])}}

allDelivery(wf, flag) == \A t \in deliveryTasks(wf) : t.done = flag

\* a handler run of the given kind that met no failing call
ranOk(op, kind) == op.kind = kind /\ ~op.failed

\* the last handler run targeted a contract document that exists
contractTargeted(op) == op.target # <<>> /\ hasDoc(op.preContracts, op.target)

markThenReset ==
    /\ ranOk(prevOp, "mark") /\ ranOk(lastOp, "reset") /\ prevOp.id = lastOp.id

\* C12: after markDeliveryPaid followed by resetDeliveryPaid on an order, the
\* persisted order has depositPaid = false, a pending status and no delivery task
\* done, and the persisted order and its contract are equal to what they were
\* before markDeliveryPaid
C12_MarkThenResetRestores ==
    markThenReset =>
        LET o == docOf(dbOrders, lastOp.id)
        IN /\ o.depositPaid = FALSE
           /\ statusOf(o.status) = "pending"
           /\ allDelivery(o.workflow, FALSE)
           /\ o = docOf(prevOp.preOrders, lastOp.id)
           /\ contractTargeted(lastOp) =>
                  docOf(dbContracts, lastOp.target)
                      = docOf(prevOp.preContracts, lastOp.target)

\* the two last handler runs toggled the same delivery task of the same order, to
\* done and back, and a contract was targeted
toggledAndBack ==
    /\ ranOk(prevOp, "toggle") /\ ranOk(lastOp, "toggle")
    /\ prevOp.id = lastOp.id
    /\ prevOp.at[1] = lastOp.at[1] /\ prevOp.at[2] = lastOp.at[2]
    /\ prevOp.at[3] = TRUE /\ lastOp.at[3] = FALSE
    /\ isDelivery(prevOp.preWorkflow[prevOp.at[1]])
    /\ contractTargeted(prevOp)

persistedAndInSync(op) ==
    LET o == docOf(op.preOrders, op.id)
        c == docOf(op.preContracts, op.target)
        oi == findDeliveryIdx(op.preWorkflow)
    IN /\ o.workflow = op.preWorkflow
       /\ oi # 0
       /\ \A t \in deliveryTasks(c.workflow) :
              LET m == findTitle(op.preWorkflow[oi].tasks, t.title)
              IN m # 0 /\ op.preWorkflow[oi].tasks[m].done = t.done
       /\ \A j \in 1..Len(op.preWorkflow[oi].tasks) :
              \E t \in deliveryTasks(c.workflow) :
                  normalize(t.title) = normalize(op.preWorkflow[oi].tasks[j].title)

ensuredFor(wf, v, cMap, cByEmail) ==
    LET rows == getDisplayItems(v, cMap, cByEmail)
    IN \A k \in 1..Len(rows) :
           rows[k].name # <<>> =>
               \E t \in deliveryTasks(wf) :
                   normalize(t.title) = normalize(EntregarPrefix \o rows[k].name)

\* C14: after markDeliveryPaid ran without a failure, every delivery task is done in
\* the staged workflow and in the persisted order, the order has depositPaid = true,
\* a completed status and a delivery timestamp, and, when a contract resolves, the
\* contract holds the ensured delivery tasks, all done, and depositPaid = true
C14_MarkPostState ==
    ranOk(lastOp, "mark") =>
        LET o == docOf(dbOrders, lastOp.id)
        IN /\ allDelivery(workflow, TRUE)
           /\ o.workflow = workflow
           /\ o.depositPaid = TRUE
           /\ statusOf(o.status) = "completed"
           /\ o.deliveredAt \notin {Null, JsNull}
           /\ contractTargeted(lastOp) =>
                  LET c == docOf(dbContracts, lastOp.target)
                  IN /\ allDelivery(c.workflow, TRUE)
                     /\ ensuredFor(c.workflow, viewing, lastOp.preContracts,
                                   byEmailOf(lastOp.preContracts))
                     /\ c.depositPaid = TRUE

\* a mark that found delivery tasks not done on the order and on its contract
C14_Witness ==
    /\ ranOk(lastOp, "mark") /\ contractTargeted(lastOp)
    /\ \E t \in deliveryTasks(lastOp.preWorkflow) : ~t.done
    /\ \E t \in deliveryTasks(docOf(lastOp.preContracts, lastOp.target).workflow) :
           ~t.done
    /\ deliveryTasks(docOf(dbContracts, lastOp.target).workflow) # {}

\* C15: after resetDeliveryPaid ran without a failure, every delivery task is not
\* done in the staged workflow and in the persisted order, the order has
\* depositPaid = false, a pending status and no delivery timestamp, and, when a
\* contract resolves, no delivery task of the contract is done and the contract has
\* depositPaid = false
C15_ResetPostState ==
    ranOk(lastOp, "reset") =>
        LET o == docOf(dbOrders, lastOp.id)
        IN /\ allDelivery(workflow, FALSE)
           /\ o.workflow = workflow
           /\ o.depositPaid = FALSE
           /\ statusOf(o.status) = "pending"
           /\ o.deliveredAt \in {Null, JsNull}
           /\ contractTargeted(lastOp) =>
                  LET c == docOf(dbContracts, lastOp.target)
                  IN /\ allDelivery(c.workflow, FALSE)
                     /\ c.depositPaid = FALSE

\* a reset of an order that had been marked paid, with its contract
C15_Witness ==
    /\ ranOk(lastOp, "reset") /\ contractTargeted(lastOp)
    /\ docOf(lastOp.preOrders, lastOp.id).depositPaid
    /\ docOf(lastOp.preOrders, lastOp.id).deliveredAt = NowStamp
    /\ docOf(lastOp.preContracts, lastOp.target).depositPaid
    /\ \E t \in deliveryTasks(lastOp.preWorkflow) : t.done
    /\ \E t \in deliveryTasks(docOf(lastOp.preContracts, lastOp.target).workflow) :
           t.done

\* the completion state of the delivery tasks of wf: each normalized title with
\* its done flag
deliveryState(wf) == {<<normalize(t.title), t.done>> : t \in deliveryTasks(wf)}

\* the last handler run wrote a workflow, met no failing call and targeted a contract
savedWithContract ==
    /\ lastOp.kind \in {"save", "toggle", "mark", "reset"}
    /\ ~lastOp.failed
    /\ contractTargeted(lastOp)

\* C16: after saveWorkflow, a toggle, markDeliveryPaid or resetDeliveryPaid on an
\* order whose contract resolves, also after changes made in edit mode, the
\* delivery tasks of the persisted order and those of the contract have the same
\* completion state
C16_DeliveryStatesIdentical ==
    savedWithContract =>
        deliveryState(docOf(dbOrders, lastOp.id).workflow)
            = deliveryState(docOf(dbContracts, lastOp.target).workflow)

\* a task with its done flag left out of the comparison
sansDone(t) == [t EXCEPT !.done = FALSE]

\* category post is the delivery category pre with at most the done flags changed
\* and tasks added at its end
sameButDelivery(pre, post) ==
    /\ post.id = pre.id /\ post.name = pre.name
    /\ Len(post.tasks) >= Len(pre.tasks)
    /\ \A j \in 1..Len(pre.tasks) : sansDone(post.tasks[j]) = sansDone(pre.tasks[j])

\* workflow post is workflow pre with changes in its delivery categories alone, or
\* with one delivery category added at its end when pre had none
deliveryOnlyChanged(pre, post) ==
    /\ Len(post) \in {Len(pre), Len(pre) + 1}
    /\ \A i \in 1..Len(pre) :
           IF isDelivery(pre[i]) THEN sameButDelivery(pre[i], post[i])
           ELSE post[i] = pre[i]
    /\ Len(post) = Len(pre) + 1 =>
           /\ isDelivery(post[Len(post)])
           /\ findDeliveryIdx(pre) = 0

\* the last handler run was saveWorkflow or a toggle and targeted a contract
savedOrToggled ==
    /\ lastOp.kind \in {"save", "toggle"}
    /\ contractTargeted(lastOp)

\* C17: saveWorkflow and the toggle change on the contract only the delivery
\* categories of its workflow (done flags, tasks added for missing names); every
\* other category and task and every other field of the contract stays as it was
C17_ContractFrame ==
    savedOrToggled =>
        LET pre == docOf(lastOp.preContracts, lastOp.target)
            post == docOf(dbContracts, lastOp.target)
        IN /\ [post EXCEPT !.workflow = <<>>] = [pre EXCEPT !.workflow = <<>>]
           /\ deliveryOnlyChanged(pre.workflow, post.workflow)

\* a save or a toggle that changed the workflow of a contract holding a category
\* other than delivery, while the order's workflow differs from it there
C17_Witness ==
    /\ savedOrToggled /\ ~lastOp.failed
    /\ LET pre == docOf(lastOp.preContracts, lastOp.target)
           post == docOf(dbContracts, lastOp.target)
       IN /\ post.workflow # pre.workflow
          /\ \E i \in 1..Len(pre.workflow) : ~isDelivery(pre.workflow[i])
          /\ docOf(dbOrders, lastOp.id).workflow # post.workflow

\* the tasks of category cat that deliver the item named n
tasksFor(cat, n) ==
    {j \in 1..Len(cat.tasks) :
        normalize(cat.tasks[j].title) = normalize(EntregarPrefix \o n)}

\* wf has a delivery category, and it holds exactly one task for each item the
\* order o shows
deliveryComplete(wf, o) ==
    LET di == findDeliveryIdx(wf)
        rows == getDisplayItems(o, contractsMap, contractsByEmail)
    IN /\ di # 0
       /\ \A k \in 1..Len(rows) :
              rows[k].name # <<>> => Cardinality(tasksFor(wf[di], rows[k].name)) = 1

\* C18: in every reachable state the workflow staged for the open order, and every
\* workflow persisted on an order, has a category whose name contains 'entrega'
\* holding exactly one task per distinct item name of the order
C18_DeliveryCategoryAlwaysComplete ==
    /\ viewing # NoOrder => deliveryComplete(workflow, viewing)
    /\ \A i \in 1..Len(dbOrders) :
           dbOrders[i].workflow # <<>> =>
               deliveryComplete(dbOrders[i].workflow, dbOrders[i])

\* every delivery task of the contract workflow cwf whose title is found in the
\* delivery category of the order workflow owf has the done flag found there
flagsFollowOrder(cwf, owf) ==
    LET oi == findDeliveryIdx(owf)
    IN oi # 0 =>
           \A t \in deliveryTasks(cwf) :
               LET m == findTitle(owf[oi].tasks, t.title)
               IN m # 0 => t.done = owf[oi].tasks[m].done

writesIn(log) == {k \in 1..Len(log) : log[k] \in {"updateOrder", "updateContract"}}

ordersLoadsIn(log) == {k \in 1..Len(log) : log[k] = "fetchOrders"}

lookupLoadsIn(log) == {k \in 1..Len(log) : log[k] = "loadContractsMap"}

\* the list entry e shows what the order document d holds in the fields the
\* payment handlers write
showsOrder(e, d) ==
    /\ e.workflow = d.workflow
    /\ e.depositPaid = d.depositPaid
    /\ e.status = d.status
    /\ e.deliveredAt = d.deliveredAt

\* C20: in a run of markDeliveryPaid or resetDeliveryPaid without a failure, the
\* orders and the contract lookups are loaded after every write of the run, and at
\* its end the order list shows the persisted order and the lookup holds the
\* persisted contract
C20_RefetchShowsCommitted ==
    (lastOp.kind \in {"mark", "reset"} /\ ~lastOp.failed) =>
        /\ \E f \in ordersLoadsIn(lastOp.log) : \A w \in writesIn(lastOp.log) : w < f
        /\ \E l \in lookupLoadsIn(lastOp.log) : \A w \in writesIn(lastOp.log) : w < l
        /\ \E i \in 1..Len(orders) :
               /\ orders[i].id = lastOp.id
               /\ showsOrder(orders[i], docOf(dbOrders, lastOp.id))
        /\ contractTargeted(lastOp) =>
               /\ hasDoc(contractsMap, lastOp.target)
               /\ docOf(contractsMap, lastOp.target)
                      = docOf(dbContracts, lastOp.target)

\* C23: a handler that changed an order and ran without a failure has re-run the
\* loader after its last write
C23_LoaderRerunAfterMutation ==
    ( /\ lastOp.kind \in {"toggle", "save", "mark", "reset", "status", "remove", "link"}
      /\ ~lastOp.failed
      /\ writesIn(lastOp.log) # {} ) =>
        \E k \in ordersLoadsIn(lastOp.log) : \A w \in writesIn(lastOp.log) : w < k

\* the run op issued the write named call and the write failed
writeFailed(op, call, name) ==
    /\ call \in op.fails
    /\ \E k \in 1..Len(op.log) : op.log[k] = name

\* C27: after a run of saveWorkflow, of the checkbox handler, of markDeliveryPaid
\* or of resetDeliveryPaid in which a database write failed, the order and the
\* contract documents, the staged workflow and the open order are as before the
\* run, and the failed write was issued once
C27_FailedWriteHasNoEffect ==
    ( /\ lastOp.kind \in {"toggle", "save", "mark", "reset"}
      /\ \/ writeFailed(lastOp, "order", "updateOrder")
         \/ writeFailed(lastOp, "cwrite", "updateContract") ) =>
        /\ dbOrders = lastOp.preOrders
        /\ dbContracts = lastOp.preContracts
        /\ workflow = lastOp.preWorkflow
        /\ viewing = lastOp.preViewing
        /\ Cardinality({k \in 1..Len(lastOp.log) : lastOp.log[k] = "updateOrder"}) <= 1
        /\ Cardinality({k \in 1..Len(lastOp.log) : lastOp.log[k] = "updateContract"}) <= 1

\* the order document id held the status 'processing' among docs
wasProcessing(docs, id) ==
    \E j \in 1..Len(docs) : docs[j].id = id /\ statusOf(docs[j].status) = "processing"

\* the step is a run of the handler kind in which the write of the order succeeded
ranStep(kind) ==
    /\ writes' = writes + 1
    /\ lastOp'.kind = kind
    /\ "order" \notin lastOp'.fails

\* C28: a run of markDeliveryPaid leaves the order 'completed' and a run of
\* resetDeliveryPaid leaves it 'pending', whatever its status was; and an order
\* comes to be 'processing' only in a run of updateStatus on that order
C28_PaidHandlersForceStatus ==
    [][ /\ ranStep("mark") =>
             statusOf(docOf(dbOrders', lastOp'.id).status) = "completed"
        /\ ranStep("reset") =>
             statusOf(docOf(dbOrders', lastOp'.id).status) = "pending"
        /\ \A i \in 1..Len(dbOrders') :
             ( /\ statusOf(dbOrders'[i].status) = "processing"
               /\ ~wasProcessing(dbOrders, dbOrders'[i].id) )
             => (lastOp'.kind = "status" /\ lastOp'.id = dbOrders'[i].id)
      ]_vars

\* markDeliveryPaid took an order from 'pending' to 'completed' in one write
C28_Witness ==
    /\ lastOp.kind = "mark" /\ "order" \notin lastOp.fails
    /\ statusOf(docOf(lastOp.preOrders, lastOp.id).status) = "pending"
    /\ statusOf(docOf(dbOrders, lastOp.id).status) = "completed"

\* resetDeliveryPaid took an order from 'processing' to 'pending'
C28_WitnessReset ==
    /\ lastOp.kind = "reset" /\ "order" \notin lastOp.fails
    /\ statusOf(docOf(lastOp.preOrders, lastOp.id).status) = "processing"
    /\ statusOf(docOf(dbOrders, lastOp.id).status) = "pending"

\* updateStatus put a pending order in 'processing'
C28_WitnessProcessing ==
    /\ lastOp.kind = "status" /\ "order" \notin lastOp.fails
    /\ statusOf(docOf(lastOp.preOrders, lastOp.id).status) = "pending"
    /\ statusOf(docOf(dbOrders, lastOp.id).status) = "processing"

----------------------------------------------------------------------------
(* Properties of the admin sign-in *)

\* admin mode was turned on by the last run of submitAdminModal: the storage flag
\* set, the change broadcast, the header switched or the admin store opened
turnedOn ==
    \/ isAdmin /\ ~lastSubmit.wasAdmin
    \/ siteAdminMode /\ ~lastSubmit.wasStored
    \/ Len(adminEvents) > lastSubmit.events
    \/ path # lastSubmit.wasPath

\* C29: after a run of submitAdminModal, admin mode was turned on only if the
\* sign-in succeeded; with an empty email or password, offline, or after a failed
\* sign-in, admin mode, storage flag and route are as before, nothing was
\* broadcast, the modal is open and shows a message, which is a different one for
\* a network failure, wrong credentials, an invalid email and rate limiting
C29_AdminOnlyAfterSignIn ==
    lastSubmit.ran =>
        /\ turnedOn => lastSubmit.signIn = "ok"
        /\ ( \/ lastSubmit.email = <<>> \/ lastSubmit.password = <<>>
             \/ ~lastSubmit.online \/ lastSubmit.signIn = "error" ) =>
              /\ ~turnedOn
              /\ isAdmin = lastSubmit.wasAdmin
              /\ siteAdminMode = lastSubmit.wasStored
              /\ showAdminModal
              /\ adminModalError # <<>>
        /\ lastSubmit.signIn = "error" =>
              /\ lastSubmit.code = "auth/network-request-failed"
                    => adminModalError = AdminMsg.network
              /\ lastSubmit.code \in {"auth/user-not-found", "auth/wrong-password"}
                    => adminModalError = AdminMsg.credentials
              /\ lastSubmit.code = "auth/invalid-email"
                    => adminModalError = AdminMsg.invalidEmail
              /\ lastSubmit.code = "auth/too-many-requests"
                    => adminModalError = AdminMsg.rateLimit
        /\ Cardinality({AdminMsg.network, AdminMsg.credentials, AdminMsg.invalidEmail, AdminMsg.rateLimit}) = 4

\* a sign-in refused for too many attempts, after an earlier run had failed
C29_Witness ==
    /\ lastSubmit.ran /\ submits = 2
    /\ lastSubmit.signIn = "error" /\ lastSubmit.code = "auth/too-many-requests"
    /\ showAdminModal /\ adminModalError = AdminMsg.rateLimit /\ ~isAdmin

\* a sign-in that succeeded: admin mode is on and the admin store is shown
C29_WitnessOn ==
    /\ lastSubmit.ran /\ lastSubmit.signIn = "ok"
    /\ isAdmin /\ siteAdminMode /\ path = "/admin-store" /\ ~showAdminModal

----------------------------------------------------------------------------
(* Properties of the handlers step by step *)

\* call c has started and its last write has not returned
inWindow(c) == inflight[c].pc \in {"order", "read", "write"}

\* C21: in one session, while a handler is between its start and the return of
\* its last write, no other handler on the same order is
C21_NoOverlapInSession ==
    \A a, b \in 1..Len(inflight) :
        (a # b /\ inflight[a].session = inflight[b].session /\ inWindow(a))
        => ~inWindow(b)

\* the call whose write the contract received last
lastWriter == inflight[trace[Len(trace)]]

\* C22: the contract holds the workflow that the last handler to write it
\* computed from its own read, whatever was written between that read and the
\* write: no write is refused or merged
C22_LastWriteWins ==
    trace # <<>> =>
        docOf(dbContracts, lastWriter.target).workflow = lastWriter.merged

\* the task titled as t is done in the delivery category of wf
doneIn(wf, title) ==
    \E t \in deliveryTasks(wf) : normalize(t.title) = normalize(title) /\ t.done

\* two sessions toggled; the second writer had read the contract before the first
\* wrote it, and a task the first writer had set done is not done in the contract
\* although the first session still shows it done
C22_Witness ==
    \E i, j \in 1..Len(trace) :
        /\ i < j /\ j = Len(trace)
        /\ inflight[trace[i]].session # inflight[trace[j]].session
        /\ inflight[trace[i]].kind = "toggle" /\ inflight[trace[j]].kind = "toggle"
        /\ inflight[trace[j]].seen < i
        /\ \A c \in {trace[i], trace[j]} : inflight[c].pc = "done" /\ ~inflight[c].failed
        /\ doneIn(inflight[trace[i]].merged, EntregarPrefix \o AlbumA)
        /\ doneIn(sessions[inflight[trace[i]].session].workflow, EntregarPrefix \o AlbumA)
        /\ ~doneIn(dbContracts[1].workflow, EntregarPrefix \o AlbumA)

\* saveWorkflow or a payment handler is running in session s
holdsSaving(s) ==
    \E c \in 1..Len(inflight) :
        /\ inflight[c].session = s
        /\ inflight[c].kind \in {"save", "mark", "reset"}
        /\ inflight[c].pc # "done"

\* C24: every handler that has started ends, a saving flag that is true becomes
\* false, and the flag of a session is false whenever neither saveWorkflow nor a
\* payment handler is running in it
C24_SavingEnds ==
    /\ \A c \in 1..MaxCalls :
         [](Len(inflight) >= c => <>(Len(inflight) >= c /\ inflight[c].pc = "done"))
    /\ \A s \in 1..MaxSessions :
         []((Len(sessions) >= s /\ sessions[s].savingWf)
            => <>(Len(sessions) >= s /\ ~sessions[s].savingWf))
    /\ [](\A s \in 1..Len(sessions) : ~holdsSaving(s) => ~sessions[s].savingWf)

\* a payment handler ended after a failed call and the flag of its session is false
C24_Witness ==
    \E c \in 1..Len(inflight) :
        /\ inflight[c].kind \in {"save", "mark", "reset"}
        /\ inflight[c].pc = "done" /\ inflight[c].failed
        /\ ~sessions[inflight[c].session].savingWf

----------------------------------------------------------------------------
(* Properties of the aggregated view of the loader *)

\* the items of the order rows, one row after the other
RECURSIVE rowItems(_)
rowItems(rows) ==
    IF rows = <<>> THEN <<>> ELSE Head(rows).items \o rowItems(Tail(rows))

\* the name the list shows for a stored item
shownName(it) == OrStr(it.name, it.product_id)

\* the order rows of the last run's database that the lookup of contract c returns
rowsFound(c) == ordersOfContract(lastRun.before, c)

\* in the last run contract c was served from order rows found in the database:
\* it has purchased items, no order the run loaded references it, and its lookup
\* returned rows
aggregatedIn(c) ==
    /\ runs > 0 /\ lastRun.online /\ ~lastRun.fail.contracts
    /\ has_createdAt(c) /\ Len(c.storeItems) > 0
    /\ ~existsInItems(loadedItems(lastRun.before, lastRun.fail), c)
    /\ c.id \notin lastRun.fail.lookup
    /\ rowsFound(c) # <<>>

\* positions of the list that hold an order of contract id
listedFor(id) == {k \in 1..Len(orders) : orders[k].contractId = id}

\* C31: when no loaded order references a contract with purchased items and its
\* lookup returns order rows, the run creates no order document for it and adds
\* exactly one order to the list, whose items are the rows' items one after the
\* other and whose total is the sum of their totals
C31_AggregatesFoundRows ==
    \A i \in 1..Len(dbContracts) :
        aggregatedIn(dbContracts[i]) =>
            /\ madeFor(lastRun.made, dbContracts[i].id) = 0
            /\ madeFor(dbOrders, dbContracts[i].id)
                 = madeFor(lastRun.before, dbContracts[i].id)
            /\ Cardinality(listedFor(dbContracts[i].id)) = 1
            /\ \A k \in listedFor(dbContracts[i].id) :
                 \E raw \in {rowItems(rowsFound(dbContracts[i]))} :
                   /\ Len(orders[k].items) = Len(raw)
                   /\ \A j \in 1..Len(raw) :
                        /\ orders[k].items[j].name = shownName(raw[j])
                        /\ orders[k].items[j].total = statedItemTotal(raw[j])
                   /\ orders[k].total = statedTotal(raw)
                   /\ orders[k].id = rowsFound(dbContracts[i])[1].id

\* two order rows of one contract that the ordered read does not return are shown
\* as one order with both their items
C31_Witness ==
    \E i \in 1..Len(dbContracts) :
        /\ aggregatedIn(dbContracts[i])
        /\ Len(rowsFound(dbContracts[i])) = 2
        /\ \E k \in listedFor(dbContracts[i].id) :
             Len(orders[k].items) = 2 /\ orders[k].total = 100

----------------------------------------------------------------------------
(* Properties of the result of ensureDeliveryTasks *)

\* the name of a category contains 'entrega', whatever its case and accents
namedEntrega(cat) ==
    \E i \in 1..Len(cat.name) :
        /\ i + 6 <= Len(cat.name)
        /\ ToLowerCase(SeqMap(StripDiacritic, SubSeq(cat.name, i, i + 6))) = entrega

\* the first category of wf so named; Len(wf) + 1 when there is none
firstEntrega(wf) ==
    IF \E i \in 1..Len(wf) : namedEntrega(wf[i])
    THEN CHOOSE i \in 1..Len(wf) :
             namedEntrega(wf[i]) /\ \A j \in 1..(i - 1) : ~namedEntrega(wf[j])
    ELSE Len(wf) + 1

\* the tasks the delivery category had before the call
tasksBefore == IF firstEntrega(edW) <= Len(edW) THEN edW[firstEntrega(edW)].tasks ELSE <<>>

titled(tasks, title) ==
    \E j \in 1..Len(tasks) : normalize(tasks[j].title) = normalize(title)

\* C32: the result of ensureDeliveryTasks(W, N) holds the categories of W in
\* order, each with its tasks unchanged and in order; a category 'Entrega de
\* productos' is added, last, only when no name of W contains 'entrega'; the tasks
\* added to the delivery category are not done, are titled 'Entregar {name}' for
\* names of N whose title the category did not hold, one per title, and every
\* name of N has its task
C32_EnsureKeepsAndAppends ==
    edPc \in {"once", "twice"} =>
        \E d \in {firstEntrega(edW)} :
        \E added \in {SubSeq(edOut[d].tasks, Len(tasksBefore) + 1, Len(edOut[d].tasks))} :
            /\ Len(edOut) = IF d <= Len(edW) THEN Len(edW) ELSE Len(edW) + 1
            /\ \A i \in 1..Len(edW) : i # d => edOut[i] = edW[i]
            /\ d <= Len(edW) => (edOut[d].id = edW[d].id /\ edOut[d].name = edW[d].name)
            /\ d > Len(edW) => edOut[d].name = EntregaDeProductos
            /\ SubSeq(edOut[d].tasks, 1, Len(tasksBefore)) = tasksBefore
            /\ \A j \in 1..Len(added) :
                 /\ ~added[j].done
                 /\ \E k \in 1..Len(edN) : added[j].title = EntregarPrefix \o edN[k]
                 /\ ~titled(tasksBefore, added[j].title)
                 /\ \A j2 \in 1..Len(added) :
                      j2 # j => normalize(added[j2].title) # normalize(added[j].title)
            /\ \A k \in 1..Len(edN) : titled(edOut[d].tasks, EntregarPrefix \o edN[k])

\* a workflow whose first category has a task with a due date and a note and no
\* delivery category: the category is added last with a task, the first is kept
C32_Witness ==
    /\ edPc = "once"
    /\ Len(edW) = 1 /\ edW[1].tasks # <<>> /\ edW[1].tasks[1].due # Null
    /\ Len(edOut) = 2 /\ edOut[1] = edW[1]
    /\ Len(edOut[2].tasks) = 1 /\ Len(edN) = 2

\* a delivery category that holds one of the two names: one task is added
C32_WitnessPresent ==
    /\ edPc = "once"
    /\ firstEntrega(edW) <= Len(edW)
    /\ tasksBefore # <<>> /\ tasksBefore[1].done
    /\ Len(edOut[firstEntrega(edW)].tasks) = Len(tasksBefore) + 1
    /\ Len(edN) = 2

----------------------------------------------------------------------------
(* Properties of applyTemplateToOrder *)

\* the identifiers of the categories and tasks of cs that have one
idsOf(cs) ==
    {cs[c].id : c \in 1..Len(cs)}
    \cup UNION {{cs[c].tasks[t].id : t \in 1..Len(cs[c].tasks)} : c \in 1..Len(cs)}

\* positions of categories (<<c, 0>>) and tasks (<<c, t>>) of cs without identifier
unnamedIn(cs) ==
    {<<c, 0>> : c \in {c \in 1..Len(cs) : cs[c].id = Null}}
    \cup UNION {{<<c, t>> : t \in {t \in 1..Len(cs[c].tasks) : cs[c].tasks[t].id = Null}}
                    : c \in 1..Len(cs)}

idAt(wf, p) == IF p[2] = 0 THEN wf[p[1]].id ELSE wf[p[1]].tasks[p[2]].id

\* wf is a copy of the categories cs with every task not done, the identifiers
\* of cs kept and the missing ones drawn afresh, after u were handed out
copyOfTemplate(wf, cs, u) ==
    /\ Len(wf) = Len(cs)
    /\ \A c \in 1..Len(cs) :
         /\ wf[c].name = cs[c].name
         /\ cs[c].id # Null => wf[c].id = cs[c].id
         /\ Len(wf[c].tasks) = Len(cs[c].tasks)
         /\ \A t \in 1..Len(cs[c].tasks) :
              /\ wf[c].tasks[t] = [cs[c].tasks[t] EXCEPT !.done = FALSE,
                                                         !.id = wf[c].tasks[t].id]
              /\ cs[c].tasks[t].id # Null => wf[c].tasks[t].id = cs[c].tasks[t].id
    /\ \A p \in unnamedIn(cs) :
         /\ idAt(wf, p) # Null /\ idAt(wf, p) > u
         /\ idAt(wf, p) \notin (idsOf(cs) \ {Null})
         /\ \A q \in unnamedIn(cs) : q # p => idAt(wf, q) # idAt(wf, p)

\* C33: a step of applyTemplateToOrder with a template stages a copy of the
\* template's categories and tasks, in order, every task not done, identifiers
\* kept and missing ones fresh, in place of the whole staged workflow; with no
\* template it leaves the staged workflow; either way the template and the
\* stored order are as before
C33_TemplateReplacesStaged ==
    [][ /\ edits' = edits + 1 =>
             copyOfTemplate(workflow', templates[1].categories, uidCtr)
        /\ (lastOp'.kind = "template" /\ edits' = edits) =>
             (workflow' = workflow /\ uidCtr' = uidCtr)
        /\ templates' = templates /\ dbOrders' = dbOrders /\ viewing' = viewing
      ]_vars

\* the template without identifiers replaced a staged workflow of two categories:
\* three identifiers were drawn and the task that was done in the template is not
C33_Witness ==
    /\ edits = 1 /\ templates[1].id = <<"t2">>
    /\ uidCtr = 3
    /\ Len(workflow) = 2 /\ workflow[1].id = 1
    /\ workflow[1].tasks[1].due = 5 /\ ~workflow[1].tasks[1].done
    /\ workflow[1].tasks[2].id = 201
    /\ dbOrders[1].workflow = StepWorkflow

\* applyTemplateToOrder ran without a template on a staged workflow
C33_WitnessNull ==
    /\ lastOp.kind = "template" /\ edits = 0
    /\ workflow # <<>> /\ workflow = lastOp.preWorkflow

----------------------------------------------------------------------------
(* Properties of loader runs that interleave *)

\* C34: whatever the interleaving of the loader runs, a contract with purchased
\* items that had no order at the start has at most one order document
C34_OneOrderPerContractWhenInterleaved ==
    \A i \in 1..Len(dbContracts) :
        (Len(dbContracts[i].storeItems) > 0 /\ ~hasOrderFor(startOrders, dbContracts[i].id))
        => madeFor(dbOrders, dbContracts[i].id) <= 1

----------------------------------------------------------------------------
(* Properties of the list reloaded after a save *)

\* the tasks of a workflow as the panel shows them: category, title, done
shownTasks(wf) ==
    UNION {{<<wf[c].name, wf[c].tasks[t].title, wf[c].tasks[t].done>> :
               t \in 1..Len(wf[c].tasks)} : c \in 1..Len(wf)}

\* C35: when the loader has run again after a checkbox toggle or saveWorkflow that
\* did not fail, the list row of the order shows the tasks, with their done flags,
\* that the order document holds
C35_ReloadShowsPersistedWorkflow ==
    (runs = 2 /\ lastOp.kind \in {"toggle", "save"} /\ ~lastOp.failed) =>
        \E i \in 1..Len(orders) :
            /\ orders[i].id = lastOp.id
            /\ shownTasks(orders[i].workflow)
                 = shownTasks(docOf(dbOrders, lastOp.id).workflow)

----------------------------------------------------------------------------
(* Properties of the status counts of the list *)

\* counts[s] for a status filter s: the orders of the list whose status is s
countOf(s) == Cardinality({i \in 1..Len(orders) : orders[i].status = s})

\* C36: each order of the published list has one of the three values of
\* OrderStatus as its status, and the counts of the three status filters sum to
\* the count of 'todas'
C36_StatusIsAFilterValue ==
    /\ \A i \in 1..Len(orders) : orders[i].status \in OrderStatuses
    /\ countOf("pendiente") + countOf("procesando") + countOf("completado")
         = Len(orders)

----------------------------------------------------------------------------
(* Properties of admin mode across the header, the storage and the overlay *)

\* whether the image-admin overlay of Layout is on: its effect finds no flag at
\* mount, and its listener takes the detail of each 'siteAdminModeChanged' event
overlayOn ==
    IF adminEvents = <<>> THEN FALSE ELSE adminEvents[Len(adminEvents)]

\* C37: between the handlers of the header, the flag site_admin_mode of the
\* storage, the state isAdmin of the header and the image-admin overlay are all
\* on or all off
C37_AdminStatesAgree ==
    /\ siteAdminMode = isAdmin
    /\ overlayOn = isAdmin

----------------------------------------------------------------------------
(* Properties of autoLinkOrders *)

\* the rows of the list for the document id that carry no contractId
unlinkedRows(id) ==
    {k \in 1..Len(orders) : orders[k].id = id /\ orders[k].contractId = <<>>}

\* the loaded contracts whose email is the customer email of row o
emailMatches(o) ==
    IF o.customer_email = <<>> THEN {}
    ELSE {contractsMap[i].id : i \in {j \in 1..Len(contractsMap) :
             emailKey(contractsMap[j].clientEmail) = emailKey(o.customer_email)}}

\* the loaded contracts that hold a purchased item named like an item of row o
nameMatches(o) ==
    {contractsMap[i].id : i \in {j \in 1..Len(contractsMap) :
        \E a \in 1..Len(o.items), b \in 1..Len(contractsMap[j].storeItems) :
            emailKey(itemKey(o.items[a]))
              = emailKey(contractsMap[j].storeItems[b].name)}}

\* the contracts row o may be linked to: those of its email, else those of its items
linkMatches(o) == IF emailMatches(o) # {} THEN emailMatches(o) ELSE nameMatches(o)

\* C38: a run of autoLinkOrders that was not confirmed leaves the collection and
\* the list as they were; a confirmed run changes nothing of a stored order but
\* its contractId, and only of an order that the list shows without one: to a
\* contract of its email if there is one, else to one that shares an item name;
\* an order the list shows linked, or without a matching contract, stays as it
\* was, and one with a match whose write did not fail is linked
C38_LinksOnlyUnlinkedAfterConfirm ==
    [][ /\ lastOp'.kind = "linkDeclined" =>
              /\ dbOrders' = dbOrders /\ orders' = orders
              /\ dbContracts' = dbContracts
        /\ lastOp'.kind = "link" =>
              /\ Len(dbOrders') >= Len(dbOrders)
              /\ \A i \in 1..Len(dbOrders) :
                   LET d == dbOrders[i]
                       e == dbOrders'[i]
                       rows == unlinkedRows(d.id)
                   IN /\ e = [d EXCEPT !.contractId = e.contractId]
                      /\ e.contractId # d.contractId =>
                            /\ rows # {}
                            /\ \A k \in rows : e.contractId \in linkMatches(orders[k])
                      /\ rows = {} => e = d
                      /\ (\A k \in rows : linkMatches(orders[k]) = {}) => e = d
                      /\ (\E k \in rows : linkMatches(orders[k]) # {})
                           /\ d.id \notin lastOp'.fails => e.contractId # <<>>
      ]_vars

\* a confirmed run linked an order to c1 by its email, although its item is one
\* that only c2 holds
C38_Witness ==
    /\ lastOp.kind = "link"
    /\ \E i \in 1..Len(lastOp.preOrders) :
          /\ lastOp.preOrders[i].contractId = <<>>
          /\ lastOp.preOrders[i].customer_email = EmailUpper
          /\ lastOp.preOrders[i].items[1].name = Foto
          /\ dbOrders[i].contractId = C1id
    /\ Len(dbContracts) = 2

\* the dialog was declined while the list showed an unlinked order that c1 matches
C38_WitnessDeclined ==
    /\ lastOp.kind = "linkDeclined"
    /\ \E k \in 1..Len(orders) :
          /\ orders[k].contractId = <<>>
          /\ linkMatches(orders[k]) # {}
          /\ docOf(dbOrders, orders[k].id).contractId = <<>>

\* a confirmed run linked an order without email to c1 by the name of its item,
\* left an order that matches nothing alone, and left a linked order with c2
C38_WitnessByItem ==
    /\ lastOp.kind = "link" /\ lastOp.fails = {}
    /\ \E i \in 1..Len(lastOp.preOrders) :
          /\ lastOp.preOrders[i].contractId = <<>>
          /\ lastOp.preOrders[i].customer_email = <<>>
          /\ dbOrders[i].contractId = C1id
    /\ \E i \in 1..Len(lastOp.preOrders) :
          /\ lastOp.preOrders[i].items[1].name = AlbumAacc
          /\ dbOrders[i].contractId = <<>>

====
